---- MODULE Spec2Model ----
(***************************************************************************)
(* Batch evaluation and ranking pipeline of the dental notes comparison    *)
(* tool: POST /api/evaluate with batchData (src/src/app/api/evaluate/      *)
(* route.ts) and the judge client / ranker (src/src/lib/openai.ts).        *)
(*                                                                         *)
(* A batch structure is the sequence of entries of batchData.structure in  *)
(* Object.entries order.  A group is [transcript |-> present?, notes |->   *)
(* sequence of note texts]; the transcript name of a group is its position *)
(* in the structure and the file name of a note is its position in the     *)
(* group, so names are unique as the keys of an object are.                *)
(***************************************************************************)
EXTENDS Integers, Sequences, FiniteSets, TLC

\* ---------------------------------------------------------------- bounds
MaxGroups == 2        \* groups of a small batch
MaxNotes == 3         \* notes per group of a small batch
LargeNotes == 101     \* notes of the one big group of a very large batch
FailWindow == 6       \* judge calls 1..FailWindow of a run may fail
MaxRecords == 3       \* records handed to rankEvaluations when called alone
MaxFalsehoods == 1    \* falsehoods of a judge answer given to evaluateDentalNotes alone
MaxTranscripts == 3   \* transcripts of the evaluations handed to BatchSummary
MaxVariants == 2      \* note file names of the evaluations handed to BatchSummary
MaxRenders == 2       \* renders of BatchSummary with the same evaluations
MaxChunk == 3         \* chunk sizes 1..MaxChunk of evaluateBatchInChunks called alone
MaxUploads == 2       \* uploads made on the page, one after the other
MaxUploadNotes == 2   \* note files of one upload made on the page

\* ------------------------------------------------------ program constants
largeBatchLimit == 100   \* route.ts:25   if (totalFiles > 100)
mediumBatchLimit == 5    \* route.ts:37   else if (totalFiles > 5)
maxFiles == 50           \* route.ts:28   evaluatePartialBatch(batchData, 50)
chunkSize == 5           \* route.ts:39   evaluateBatchInChunks(batchData, 5)
directDelayMs == 1000    \* route.ts:533  setTimeout(resolve, 1000)
chunkDelayMs == 100      \* route.ts:452  setTimeout(resolve, 100)
partialDelayMs == 100    \* route.ts:355  setTimeout(resolve, 100)

\* Score pairs <<detailScore, truthfulnessScore>> a judge answer carries:
\* the scenario scores, a pair tied with (7,8), and an out-of-range pair
\* (scores are passed through unvalidated, openai.ts:41-64).
ScorePairs == {<<9, 9>>, <<7, 8>>, <<8, 7>>, <<5, 6>>, <<0, 11>>}

\* The judge of a run, as a table of answers <<detailScore,
\* truthfulnessScore, severities of the falsehoods>>: the note at position x
\* of a group gets answer number ((x - 1) % Len(table)) + 1 when the call
\* succeeds.
JudgeTables ==
  { << <<9, 9, <<>>>>, <<7, 8, <<"low">>>>, <<5, 6, <<"high", "medium">>>> >>,
    << <<7, 8, <<"medium">>>>, <<9, 9, <<>>>>, <<8, 7, <<"low", "low">>>>,
       <<0, 11, <<"high">>>> >>,
    << <<8, 7, <<>>>>, <<7, 8, <<"low">>>> >> }

VARIABLES
  structure,       \* body.batchData.structure, in Object.entries order
  judge,           \* the judge's table of answers for this run
  pc,              \* "start" | "loop" | "await" | "delay" | "done" | "idle"
  strategy,        \* "none" | "direct" | "chunked" | "partial"; GET: "session" | "batch"
  totalFiles,      \* POST: totalFiles
  allTasks,        \* evaluateBatchInChunks: allTasks
  i,               \* evaluateBatchInChunks: chunk offset i (0-based)
  k,               \* evaluateBatchInChunks: position of the task in the chunk
  gi,              \* direct / partial: position of the group being iterated
  ni,              \* direct / partial: position of the note being iterated
  filesProcessed,  \* evaluatePartialBatch: filesProcessed
  cur,             \* the task whose judge call is in flight
  allEvaluations,  \* allEvaluations of the running orchestrator
  calls,           \* judge calls issued so far, in issue order, with outcome
  slept,           \* milliseconds of rate-limit delay since the last call
  response,        \* the HTTP response of POST
  given,           \* rankEvaluations called alone: its argument as handed in
  chunkArg,        \* evaluateBatchInChunks: its parameter chunkSize
  uploadResult,    \* Home: useState uploadResult
  pageEvaluations, \* Home: useState evaluations
  isEvaluating,    \* Home: useState isEvaluating
  handlers         \* Home: the calls of handleUploadSuccess, in call order

\* the state of a request handler of /api/evaluate
serverVars == <<structure, judge, pc, strategy, totalFiles, allTasks, i, k, gi, ni,
                filesProcessed, cur, allEvaluations, calls, slept, response, given,
                chunkArg>>

\* the state of the page
pageVars == <<uploadResult, pageEvaluations, isEvaluating, handlers>>

vars == <<structure, judge, pc, strategy, totalFiles, allTasks, i, k, gi, ni,
          filesProcessed, cur, allEvaluations, calls, slept, response, given,
          chunkArg, pageVars>>

\* ------------------------------------------------------------- inputs
Group(n, present) == [transcript |-> present, notes |-> [x \in 1..n |-> x]]

\* g groups of n notes each, group `missing` (if any) without a transcript
SmallStructures ==
  { [x \in 1..g |-> Group(n, x # missing)] :
      g \in 1..MaxGroups, n \in 1..MaxNotes, missing \in 0..MaxGroups }

\* more than 100 files: one big group, a big group without transcript
\* followed by a small one, or a small group without transcript followed by
\* a big one
LargeStructures ==
  { <<Group(LargeNotes, TRUE)>>,
    <<Group(LargeNotes, FALSE), Group(MaxNotes, TRUE)>>,
    <<Group(MaxNotes, FALSE), Group(LargeNotes, TRUE)>> }

Structures == SmallStructures \cup LargeStructures

NoTask == [transcriptName |-> 0, noteFile |-> 0]

\* uploadResult === null
NoUpload == [id |-> 0, kind |-> "null", notes |-> <<>>]

Min(a, b) == IF a < b THEN a ELSE b

\* ------------------------------------------------------- judge client
\* the fields of the judge's JSON answer
FieldNames ==
  {"detailScore", "detailExplanation", "detailExamples",
   "truthfulnessScore", "truthfulnessExplanation", "truthfulnessExamples",
   "falsehoods", "summary"}

\* severity: 'low' | 'medium' | 'high'
Severities == {"low", "medium", "high"}

\* reading a property an object does not have
Undefined == "undefined"

Get(obj, f) == IF f \in DOMAIN obj THEN obj[f] ELSE Undefined

\* a judge answer of the full shape with the scores and falsehoods of
\* `answer`, its summary being the judge's text about this very task
JudgeValue(answer, task) ==
  [detailScore |-> answer[1],
   detailExplanation |-> "text",
   detailExamples |-> <<>>,
   truthfulnessScore |-> answer[2],
   truthfulnessExplanation |-> "text",
   truthfulnessExamples |-> <<>>,
   falsehoods |-> [x \in 1..Len(answer[3]) |->
                    [description |-> x, severity |-> answer[3][x]]],
   summary |-> task]

\* completion.choices[0]?.message?.content of a call the judge answers in a
\* batch run
JudgeContent(task) ==
  [kind |-> "json",
   value |-> JudgeValue(judge[((task.noteFile - 1) % Len(judge)) + 1], task)]

\* "Convert to our internal format".  detailScore / truthfulnessScore hold
\* the .score of the source's objects, detailExplanation .. their
\* .explanation and .examples; a falsehood keeps description and severity
\* (location and correction are copied the same way).
Convert(parsed) ==
  [detailScore |-> Get(parsed, "detailScore"),
   detailExplanation |-> Get(parsed, "detailExplanation"),
   detailExamples |-> Get(parsed, "detailExamples"),
   truthfulnessScore |-> Get(parsed, "truthfulnessScore"),
   truthfulnessExplanation |-> Get(parsed, "truthfulnessExplanation"),
   truthfulnessExamples |-> Get(parsed, "truthfulnessExamples"),
   falsehoods |-> [x \in 1..Len(parsed.falsehoods) |->
                    [description |-> Get(parsed.falsehoods[x], "description"),
                     severity |-> Get(parsed.falsehoods[x], "severity")]],
   summary |-> Get(parsed, "summary"),
   overallRanking |-> 0]

\* evaluateDentalNotes from the completion on: no content throws, JSON.parse
\* throws on text that is not JSON, a property read of null throws, and
\* parsed.falsehoods.map throws when there is no falsehoods array; the catch
\* rethrows every error.
evaluateCompletion(content) ==
  IF content.kind = "none" THEN [outcome |-> "thrown"]
  ELSE IF content.kind = "text" THEN [outcome |-> "thrown"]
  ELSE IF content.kind = "null" THEN [outcome |-> "thrown"]
  ELSE IF "falsehoods" \notin DOMAIN content.value THEN [outcome |-> "thrown"]
  ELSE [outcome |-> "returned", results |-> Convert(content.value)]

\* The record evaluateDentalNotes returns when the judge answers.
evaluateDentalNotes(task) == evaluateCompletion(JudgeContent(task)).results

\* The log of judge calls: openai.chat.completions.create is entered once per
\* evaluateDentalNotes, and the call ends answered ("ok") or thrown ("failed").
Issued(task) ==
  [transcriptName |-> task.transcriptName, noteFile |-> task.noteFile,
   outcome |-> "pending"]

Settle(log, outcome) == [log EXCEPT ![Len(log)].outcome = outcome]

\* A judge call may fail (transport, quota, unparsable answer) while it is one
\* of the first FailWindow calls of the run.
JudgeMayFail == Len(calls) <= FailWindow

\* ------------------------------------------------------------- ranker
\* compositeScore, held in half points: (detail + truthfulness) / 2 is exact
\* in the source's floating point, so comparisons agree with the sum's.
compositeScore(evaluation) ==
  evaluation.detailScore + evaluation.truthfulnessScore

\* Variant of compareFn: the comparator with its operands swapped.
compareFn_ascending(a, b) == a.compositeScore - b.compositeScore

\* the comparator (a, b) => b.compositeScore - a.compositeScore
compareFn(a, b) == b.compositeScore - a.compositeScore

\* Array.prototype.sort is stable: x goes behind every element that the
\* comparator does not put after it.
SortInsert(sorted, x) ==
  LET p == Cardinality({j \in 1..Len(sorted) : compareFn(sorted[j], x) <= 0})
  IN SubSeq(sorted, 1, p) \o <<x>> \o SubSeq(sorted, p + 1, Len(sorted))

\* elements are inserted in input order, so equal elements keep that order
RECURSIVE sortFrom(_, _)
sortFrom(sorted, s) ==
  IF Len(sorted) >= Len(s) THEN sorted
  ELSE sortFrom(SortInsert(sorted, s[Len(sorted) + 1]), s)

sort(s) == sortFrom(<<>>, s)

\* Variant of rankEvaluations: equal composite scores share a rank.
rankEvaluations_sharedTies(evaluations) ==
  [idx \in 1..Len(evaluations) |->
     [evaluations[idx] EXCEPT !.overallRanking =
        1 + Cardinality({x \in 1..Len(evaluations) :
                           compositeScore(evaluations[x]) > compositeScore(evaluations[idx])})]]

\* Variant of rankEvaluations: the sorted copies are returned, in rank order.
rankEvaluations_rankOrder(evaluations) ==
  IF Len(evaluations) = 0 THEN evaluations
  ELSE
    LET evaluationsWithComposite ==
          sort([idx \in 1..Len(evaluations) |->
                  [compositeScore |-> compositeScore(evaluations[idx]),
                   originalIndex |-> idx]])
    IN [p \in 1..Len(evaluations) |->
          [evaluations[evaluationsWithComposite[p].originalIndex]
             EXCEPT !.overallRanking = p]]

rankEvaluations(evaluations) ==
  IF Len(evaluations) = 0 THEN evaluations
  ELSE
    LET evaluationsWithComposite ==
          sort([idx \in 1..Len(evaluations) |->
                  [compositeScore |-> compositeScore(evaluations[idx]),
                   originalIndex |-> idx]])
    IN [idx \in 1..Len(evaluations) |->
          [evaluations[idx] EXCEPT !.overallRanking =
             CHOOSE p \in 1..Len(evaluations) :
               evaluationsWithComposite[p].originalIndex = idx]]

\* evaluationsByTranscript: the keys of the Map, in insertion order, which is
\* the order in which the transcript names first appear in allEvaluations
TranscriptKeys(evaluations) ==
  LET names == {evaluations[p].transcriptName : p \in 1..Len(evaluations)}
      first(name) ==
        CHOOSE p \in 1..Len(evaluations) :
          /\ evaluations[p].transcriptName = name
          /\ \A q \in 1..(p - 1) : evaluations[q].transcriptName # name
  IN [x \in 1..Cardinality(names) |->
        CHOOSE name \in names :
          Cardinality({other \in names : first(other) <= first(name)}) = x]

\* One turn of evaluationsByTranscript.forEach: the results of the group are
\* ranked and every evaluation of the group gets the ranked result at its own
\* position in the group.
RankGroup(evaluations, key) ==
  LET members == SelectSeq(evaluations, LAMBDA e : e.transcriptName = key)
      results == [x \in 1..Len(members) |-> members[x].results]
      rankedResults == rankEvaluations(results)
      index(p) ==
        Cardinality({q \in 1..p : evaluations[q].transcriptName = key})
  IN [p \in 1..Len(evaluations) |->
        IF evaluations[p].transcriptName = key
        THEN [evaluations[p] EXCEPT !.results = rankedResults[index(p)]]
        ELSE evaluations[p]]

\* "Apply rankings within each group"
RECURSIVE ApplyRankingsTo(_, _)
ApplyRankingsTo(evaluations, keys) ==
  IF keys = <<>> THEN evaluations
  ELSE ApplyRankingsTo(RankGroup(evaluations, Head(keys)), Tail(keys))

ApplyRankings(evaluations) ==
  ApplyRankingsTo(evaluations, TranscriptKeys(evaluations))

Evaluation(task, results) ==
  [transcriptName |-> task.transcriptName,
   noteFileName |-> task.noteFile,
   results |-> results]

\* --------------------------------------------------------------- POST
\* Object.values(structure).reduce((sum, group) => sum + group.notes.length, 0)
RECURSIVE SumNotes(_)
SumNotes(s) ==
  IF s = <<>> THEN 0
  ELSE SumNotes(SubSeq(s, 1, Len(s) - 1)) + Len(s[Len(s)].notes)

\* Variant of CollectTasks: the notes of a group are taken last to first.
RECURSIVE CollectTasks_reversed(_, _)
CollectTasks_reversed(s, g) ==
  IF g > Len(s) THEN <<>>
  ELSE (IF ~s[g].transcript THEN <<>>
        ELSE [n \in 1..Len(s[g].notes) |->
                [transcriptName |-> g,
                 noteFile |-> s[g].notes[Len(s[g].notes) + 1 - n]]])
       \o CollectTasks_reversed(s, g + 1)

\* "Collect all evaluation tasks" of evaluateBatchInChunks
RECURSIVE CollectTasks(_, _)
CollectTasks(s, g) ==
  IF g > Len(s) THEN <<>>
  ELSE (IF ~s[g].transcript THEN <<>>
        ELSE [n \in 1..Len(s[g].notes) |->
                [transcriptName |-> g, noteFile |-> s[g].notes[n]]])
       \o CollectTasks(s, g + 1)

Init ==
  /\ structure \in Structures
  /\ judge \in JudgeTables
  /\ pc = "start"
  /\ strategy = "none"
  /\ totalFiles = 0
  /\ allTasks = <<>>
  /\ i = 0
  /\ k = 1
  /\ gi = 1
  /\ ni = 1
  /\ filesProcessed = 0
  /\ cur = NoTask
  /\ allEvaluations = <<>>
  /\ calls = <<>>
  /\ slept = 0
  /\ response = [status |-> 0]
  /\ given = <<>>
  /\ chunkArg = 0
  /\ uploadResult = NoUpload
  /\ pageEvaluations = <<>>
  /\ isEvaluating = FALSE
  /\ handlers = <<>>

POST ==
  /\ pc = "start"
  /\ totalFiles' = SumNotes(structure)
  /\ strategy' = IF totalFiles' > largeBatchLimit THEN "partial"
                 ELSE IF totalFiles' > mediumBatchLimit THEN "chunked"
                 ELSE "direct"
  /\ allTasks' = IF strategy' = "chunked" THEN CollectTasks(structure, 1) ELSE <<>>
  /\ chunkArg' = IF strategy' = "chunked" THEN chunkSize ELSE 0
  /\ pc' = "loop"
  /\ UNCHANGED <<pageVars, given, structure, judge, i, k, gi, ni, filesProcessed, cur,
                 allEvaluations, calls, slept, response>>

\* ------------------------------------------- evaluateBatchInMemory (direct)
\* The nested for..of loops over Object.entries(structure) and group.notes:
\* the next note at or after <<g, n>> of a group that has a transcript, or
\* <<Len(s) + 1, 1>> when the loops are exhausted.
\* Variant of SeekNote: the check of group.transcript is missing.
RECURSIVE SeekNote_noSkip(_, _, _)
SeekNote_noSkip(s, g, n) ==
  IF g > Len(s) THEN <<Len(s) + 1, 1>>
  ELSE IF n > Len(s[g].notes) THEN SeekNote_noSkip(s, g + 1, 1)
  ELSE <<g, n>>

RECURSIVE SeekNote(_, _, _)
SeekNote(s, g, n) ==
  IF g > Len(s) THEN <<Len(s) + 1, 1>>
  ELSE IF ~s[g].transcript THEN SeekNote(s, g + 1, 1)
  ELSE IF n > Len(s[g].notes) THEN SeekNote(s, g + 1, 1)
  ELSE <<g, n>>

TaskAt(pos) == [transcriptName |-> pos[1], noteFile |-> structure[pos[1]].notes[pos[2]]]

InMemoryCall ==
  /\ pc = "loop" /\ strategy = "direct"
  /\ LET pos == SeekNote(structure, gi, ni)
     IN /\ pos[1] <= Len(structure)
        /\ gi' = pos[1]
        /\ ni' = pos[2]
        /\ cur' = TaskAt(pos)
        /\ calls' = Append(calls, Issued(TaskAt(pos)))
  /\ slept' = 0
  /\ pc' = "await"
  /\ UNCHANGED <<pageVars, chunkArg, given, structure, judge, strategy, totalFiles, allTasks, i, k,
                 filesProcessed, allEvaluations, response>>

InMemoryResolved ==
  /\ pc = "await" /\ strategy = "direct"
  /\ allEvaluations' = Append(allEvaluations, Evaluation(cur, evaluateDentalNotes(cur)))
  /\ calls' = Settle(calls, "ok")
  /\ cur' = NoTask
  /\ pc' = "delay"
  /\ UNCHANGED <<pageVars, chunkArg, given, structure, judge, strategy, totalFiles, allTasks, i, k, gi, ni,
                 filesProcessed, slept, response>>

InMemoryDelay ==
  /\ pc = "delay" /\ strategy = "direct"
  /\ slept' = directDelayMs
  /\ ni' = ni + 1
  /\ pc' = "loop"
  /\ UNCHANGED <<pageVars, chunkArg, given, structure, judge, strategy, totalFiles, allTasks, i, k, gi,
                 filesProcessed, cur, allEvaluations, calls, response>>

\* Variant of InMemoryRejected: the error leaves evaluateBatchInMemory and
\* POST answers with status 500.
InMemoryRejected_propagates ==
  /\ pc = "await" /\ strategy = "direct"
  /\ JudgeMayFail
  /\ calls' = Settle(calls, "failed")
  /\ cur' = NoTask
  /\ response' = [status |-> 500, error |-> "Batch evaluation failed"]
  /\ pc' = "done"
  /\ UNCHANGED <<pageVars, chunkArg, given, structure, judge, strategy, totalFiles, allTasks, i, k, gi, ni,
                 filesProcessed, allEvaluations, slept>>

\* catch (error) { ...; continue; }
InMemoryRejected ==
  /\ pc = "await" /\ strategy = "direct"
  /\ JudgeMayFail
  /\ calls' = Settle(calls, "failed")
  /\ cur' = NoTask
  /\ ni' = ni + 1
  /\ pc' = "loop"
  /\ UNCHANGED <<pageVars, chunkArg, given, structure, judge, strategy, totalFiles, allTasks, i, k, gi,
                 filesProcessed, allEvaluations, slept, response>>

\* ranking, return, and POST's NextResponse.json({success, evaluations})
InMemoryReturn ==
  /\ pc = "loop" /\ strategy = "direct"
  /\ SeekNote(structure, gi, ni)[1] > Len(structure)
  /\ allEvaluations' = ApplyRankings(allEvaluations)
  /\ response' = [status |-> 200, success |-> TRUE, evaluations |-> allEvaluations']
  /\ pc' = "done"
  /\ UNCHANGED <<pageVars, chunkArg, given, structure, judge, strategy, totalFiles, allTasks, i, k, gi, ni,
                 filesProcessed, cur, calls, slept>>

\* ------------------------------------------ evaluateBatchInChunks (chunked)
\* allTasks.slice(off, off + chunkSize)
Chunk(tasks, off) == SubSeq(tasks, off + 1, Min(off + chunkArg, Len(tasks)))

\* for (i = 0; i < allTasks.length; i += chunkSize) for (task of chunk): the
\* next task at or after position p of the chunk at offset off, or
\* <<off, 0>> with off >= Len(tasks) when the loops are exhausted.
RECURSIVE SeekTask(_, _, _)
SeekTask(tasks, off, p) ==
  IF off >= Len(tasks) THEN <<off, 0>>
  ELSE IF p > Len(Chunk(tasks, off)) THEN SeekTask(tasks, off + chunkArg, 1)
  ELSE <<off, p>>

\* Variant of ChunksCall: the promise of evaluateDentalNotes is not awaited,
\* the loop goes on to the next task while the call is in flight.
ChunksCall_notAwaited ==
  /\ pc = "loop" /\ strategy = "chunked"
  /\ LET pos == SeekTask(allTasks, i, k)
     IN /\ pos[1] < Len(allTasks)
        /\ i' = pos[1]
        /\ k' = pos[2] + 1
        /\ cur' = Chunk(allTasks, pos[1])[pos[2]]
        /\ calls' = Append(calls, Issued(cur'))
  /\ slept' = 0
  /\ pc' = "loop"
  /\ UNCHANGED <<pageVars, chunkArg, given, structure, judge, strategy, totalFiles, allTasks, gi, ni,
                 filesProcessed, allEvaluations, response>>

ChunksCall ==
  /\ pc = "loop" /\ strategy = "chunked"
  /\ LET pos == SeekTask(allTasks, i, k)
     IN /\ pos[1] < Len(allTasks)
        /\ i' = pos[1]
        /\ k' = pos[2]
        /\ cur' = Chunk(allTasks, pos[1])[pos[2]]
        /\ calls' = Append(calls, Issued(cur'))
  /\ slept' = 0
  /\ pc' = "await"
  /\ UNCHANGED <<pageVars, chunkArg, given, structure, judge, strategy, totalFiles, allTasks, gi, ni,
                 filesProcessed, allEvaluations, response>>

\* Variant of ChunksResolved: the groups are ranked again after every push.
ChunksResolved_ranksEagerly ==
  /\ pc = "await" /\ strategy = "chunked"
  /\ allEvaluations' =
       ApplyRankings(Append(allEvaluations, Evaluation(cur, evaluateDentalNotes(cur))))
  /\ calls' = Settle(calls, "ok")
  /\ cur' = NoTask
  /\ pc' = "delay"
  /\ UNCHANGED <<pageVars, chunkArg, given, structure, judge, strategy, totalFiles, allTasks, i, k, gi, ni,
                 filesProcessed, slept, response>>

ChunksResolved ==
  /\ pc = "await" /\ strategy = "chunked"
  /\ allEvaluations' = Append(allEvaluations, Evaluation(cur, evaluateDentalNotes(cur)))
  /\ calls' = Settle(calls, "ok")
  /\ cur' = NoTask
  /\ pc' = "delay"
  /\ UNCHANGED <<pageVars, chunkArg, given, structure, judge, strategy, totalFiles, allTasks, i, k, gi, ni,
                 filesProcessed, slept, response>>

ChunksDelay ==
  /\ pc = "delay" /\ strategy = "chunked"
  /\ slept' = chunkDelayMs
  /\ k' = k + 1
  /\ pc' = "loop"
  /\ UNCHANGED <<pageVars, chunkArg, given, structure, judge, strategy, totalFiles, allTasks, i, gi, ni,
                 filesProcessed, cur, allEvaluations, calls, response>>

\* Variant of ChunksRejected: the failed task is tried again.
ChunksRejected_retries ==
  /\ pc = "await" /\ strategy = "chunked"
  /\ JudgeMayFail
  /\ calls' = Settle(calls, "failed")
  /\ cur' = NoTask
  /\ pc' = "loop"
  /\ UNCHANGED <<pageVars, chunkArg, given, structure, judge, strategy, totalFiles, allTasks, i, k, gi, ni,
                 filesProcessed, allEvaluations, slept, response>>

\* Variant of ChunksRejected: break instead of continue, the rest of the
\* chunk is dropped.
ChunksRejected_breaks ==
  /\ pc = "await" /\ strategy = "chunked"
  /\ JudgeMayFail
  /\ calls' = Settle(calls, "failed")
  /\ cur' = NoTask
  /\ k' = chunkArg + 1
  /\ pc' = "loop"
  /\ UNCHANGED <<pageVars, chunkArg, given, structure, judge, strategy, totalFiles, allTasks, i, gi, ni,
                 filesProcessed, allEvaluations, slept, response>>

\* catch (error) { ...; continue; }
ChunksRejected ==
  /\ pc = "await" /\ strategy = "chunked"
  /\ JudgeMayFail
  /\ calls' = Settle(calls, "failed")
  /\ cur' = NoTask
  /\ k' = k + 1
  /\ pc' = "loop"
  /\ UNCHANGED <<pageVars, chunkArg, given, structure, judge, strategy, totalFiles, allTasks, i, gi, ni,
                 filesProcessed, allEvaluations, slept, response>>

ChunksReturn ==
  /\ pc = "loop" /\ strategy = "chunked"
  /\ SeekTask(allTasks, i, k)[1] >= Len(allTasks)
  /\ allEvaluations' = ApplyRankings(allEvaluations)
  /\ response' = [status |-> 200, success |-> TRUE, evaluations |-> allEvaluations']
  /\ pc' = "done"
  /\ UNCHANGED <<pageVars, chunkArg, given, structure, judge, strategy, totalFiles, allTasks, i, k, gi, ni,
                 filesProcessed, cur, calls, slept>>

\* ----------------------------------------- evaluatePartialBatch (partial-cap)
\* Variant of PartialCall: the loops do not test filesProcessed.
PartialCall_uncapped ==
  /\ pc = "loop" /\ strategy = "partial"
  /\ LET pos == SeekNote(structure, gi, ni)
     IN /\ pos[1] <= Len(structure)
        /\ gi' = pos[1]
        /\ ni' = pos[2]
        /\ cur' = TaskAt(pos)
        /\ calls' = Append(calls, Issued(TaskAt(pos)))
  /\ slept' = 0
  /\ pc' = "await"
  /\ UNCHANGED <<pageVars, chunkArg, given, structure, judge, strategy, totalFiles, allTasks, i, k,
                 filesProcessed, allEvaluations, response>>

\* if (filesProcessed >= maxFiles) break;  at the head of both loops
PartialCall ==
  /\ pc = "loop" /\ strategy = "partial"
  /\ filesProcessed < maxFiles
  /\ LET pos == SeekNote(structure, gi, ni)
     IN /\ pos[1] <= Len(structure)
        /\ gi' = pos[1]
        /\ ni' = pos[2]
        /\ cur' = TaskAt(pos)
        /\ calls' = Append(calls, Issued(TaskAt(pos)))
  /\ slept' = 0
  /\ pc' = "await"
  /\ UNCHANGED <<pageVars, chunkArg, given, structure, judge, strategy, totalFiles, allTasks, i, k,
                 filesProcessed, allEvaluations, response>>

PartialResolved ==
  /\ pc = "await" /\ strategy = "partial"
  /\ allEvaluations' = Append(allEvaluations, Evaluation(cur, evaluateDentalNotes(cur)))
  /\ filesProcessed' = filesProcessed + 1
  /\ calls' = Settle(calls, "ok")
  /\ cur' = NoTask
  /\ pc' = "delay"
  /\ UNCHANGED <<pageVars, chunkArg, given, structure, judge, strategy, totalFiles, allTasks, i, k, gi, ni,
                 slept, response>>

PartialDelay ==
  /\ pc = "delay" /\ strategy = "partial"
  /\ slept' = partialDelayMs
  /\ ni' = ni + 1
  /\ pc' = "loop"
  /\ UNCHANGED <<pageVars, chunkArg, given, structure, judge, strategy, totalFiles, allTasks, i, k, gi,
                 filesProcessed, cur, allEvaluations, calls, response>>

PartialRejected ==
  /\ pc = "await" /\ strategy = "partial"
  /\ JudgeMayFail
  /\ calls' = Settle(calls, "failed")
  /\ cur' = NoTask
  /\ ni' = ni + 1
  /\ pc' = "loop"
  /\ UNCHANGED <<pageVars, chunkArg, given, structure, judge, strategy, totalFiles, allTasks, i, k, gi,
                 filesProcessed, allEvaluations, slept, response>>

\* ranking, return, and POST's response with isPartial, totalFiles,
\* processedFiles: partialResults.length
PartialReturn ==
  /\ pc = "loop" /\ strategy = "partial"
  /\ \/ filesProcessed >= maxFiles
     \/ SeekNote(structure, gi, ni)[1] > Len(structure)
  /\ allEvaluations' = ApplyRankings(allEvaluations)
  /\ response' = [status |-> 200, success |-> TRUE, evaluations |-> allEvaluations',
                  isPartial |-> TRUE, totalFiles |-> totalFiles,
                  processedFiles |-> Len(allEvaluations')]
  /\ pc' = "done"
  /\ UNCHANGED <<pageVars, chunkArg, given, structure, judge, strategy, totalFiles, allTasks, i, k, gi, ni,
                 filesProcessed, cur, calls, slept>>

Next ==
  \/ POST
  \/ InMemoryCall \/ InMemoryResolved \/ InMemoryDelay \/ InMemoryRejected
  \/ InMemoryReturn
  \/ ChunksCall \/ ChunksResolved \/ ChunksDelay \/ ChunksRejected
  \/ ChunksReturn
  \/ PartialCall \/ PartialResolved \/ PartialDelay \/ PartialRejected
  \/ PartialReturn

Spec == Init /\ [][Next]_vars

\* The steps of a request short of its return: POST enters an orchestrator,
\* the loop issues the next call, a call in flight is answered or fails, a
\* timer fires.
Resumes ==
  \/ POST
  \/ InMemoryCall \/ InMemoryResolved \/ InMemoryDelay \/ InMemoryRejected
  \/ ChunksCall \/ ChunksResolved \/ ChunksDelay \/ ChunksRejected
  \/ PartialCall \/ PartialResolved \/ PartialDelay \/ PartialRejected

\* The guards of InMemoryReturn, ChunksReturn and PartialReturn and their
\* effect on pc: a step of Next that satisfies Returns is one of the three.
Returns ==
  /\ pc = "loop"
  /\ \/ strategy = "direct" /\ SeekNote(structure, gi, ni)[1] > Len(structure)
     \/ strategy = "chunked" /\ SeekTask(allTasks, i, k)[1] >= Len(allTasks)
     \/ /\ strategy = "partial"
        /\ \/ filesProcessed >= maxFiles
           \/ SeekNote(structure, gi, ni)[1] > Len(structure)
  /\ pc' = "done"

\* The event loop resumes a continuation that can run, a timer fires, and a
\* judge call in flight is answered or fails in the end.
FairSpec == Spec /\ WF_vars(Resumes) /\ WF_pc(Returns)

\* ------------------------------------------ the orchestrators called alone
\* evaluateBatchInMemory(batchData), evaluateBatchInChunks(batchData,
\* chunkSize) and evaluatePartialBatch(batchData, 50) entered with batchData
\* of any task count; chunkSize is 1..MaxChunk or the 5 that POST passes.
InitOrchestrator ==
  /\ judge \in JudgeTables
  /\ strategy \in {"direct", "chunked", "partial"}
  /\ structure \in (IF strategy = "partial" THEN Structures ELSE SmallStructures)
  /\ chunkArg \in (IF strategy = "chunked" THEN (1..MaxChunk) \cup {chunkSize} ELSE {0})
  /\ allTasks = (IF strategy = "chunked" THEN CollectTasks(structure, 1) ELSE <<>>)
  /\ totalFiles = SumNotes(structure)
  /\ pc = "loop"
  /\ i = 0
  /\ k = 1
  /\ gi = 1
  /\ ni = 1
  /\ filesProcessed = 0
  /\ cur = NoTask
  /\ allEvaluations = <<>>
  /\ calls = <<>>
  /\ slept = 0
  /\ response = [status |-> 0]
  /\ given = <<>>
  /\ uploadResult = NoUpload
  /\ pageEvaluations = <<>>
  /\ isEvaluating = FALSE
  /\ handlers = <<>>

NextOrchestrator ==
  \/ InMemoryCall \/ InMemoryResolved \/ InMemoryDelay \/ InMemoryRejected
  \/ InMemoryReturn
  \/ ChunksCall \/ ChunksResolved \/ ChunksDelay \/ ChunksRejected
  \/ ChunksReturn
  \/ PartialCall \/ PartialResolved \/ PartialDelay \/ PartialRejected
  \/ PartialReturn

OrchestratorSpec == InitOrchestrator /\ [][NextOrchestrator]_vars

\* --------------------------------------------- rankEvaluations called alone
Results(pair) ==
  [detailScore |-> pair[1], truthfulnessScore |-> pair[2], overallRanking |-> 0]

RankInputs ==
  UNION { [1..n -> {Results(pair) : pair \in ScorePairs}] : n \in 0..MaxRecords }

InitRank ==
  /\ given \in RankInputs
  /\ chunkArg = 0
  /\ uploadResult = NoUpload
  /\ pageEvaluations = <<>>
  /\ isEvaluating = FALSE
  /\ handlers = <<>>
  /\ allEvaluations = given
  /\ pc = "rank"
  /\ structure = <<>>
  /\ judge = <<>>
  /\ strategy = "none"
  /\ totalFiles = 0
  /\ allTasks = <<>>
  /\ i = 0
  /\ k = 1
  /\ gi = 1
  /\ ni = 1
  /\ filesProcessed = 0
  /\ cur = NoTask
  /\ calls = <<>>
  /\ slept = 0
  /\ response = [status |-> 0]

\* Variant of RankCall: the array handed in is left alone and ranked copies
\* are returned in rank order.
RankCall_pure ==
  /\ pc = "rank"
  /\ allEvaluations' = allEvaluations
  /\ response' = [status |-> 0, returned |-> rankEvaluations_rankOrder(allEvaluations)]
  /\ pc' = "ranked"
  /\ UNCHANGED <<pageVars, chunkArg, given, structure, judge, strategy, totalFiles, allTasks, i, k,
                 gi, ni, filesProcessed, cur, calls, slept>>

\* The array handed in is ranked in place and returned.
RankCall ==
  /\ pc = "rank"
  /\ allEvaluations' = rankEvaluations(allEvaluations)
  /\ response' = [status |-> 0, returned |-> allEvaluations']
  /\ pc' = "ranked"
  /\ UNCHANGED <<pageVars, chunkArg, given, structure, judge, strategy, totalFiles, allTasks, i, k,
                 gi, ni, filesProcessed, cur, calls, slept>>

NextRank == RankCall

RankSpec == InitRank /\ [][NextRank]_vars

\* ------------------------------------------ evaluateDentalNotes called alone
FieldValue(f) ==
  IF f \in {"detailScore", "truthfulnessScore"} THEN 8
  ELSE IF f \in {"detailExamples", "truthfulnessExamples"} THEN <<>>
  ELSE "text"

\* falsehoods arrays of a judge answer; "critical" is a severity outside the
\* declared three, and a falsehood may come without severity
FalsehoodLists ==
  UNION { [1..n -> {[description |-> "text", severity |-> sev] :
                      sev \in Severities \cup {"critical"}}
                   \cup {[description |-> "text"]}] :
          n \in 0..MaxFalsehoods }

\* what completion.choices[0]?.message?.content can be: nothing, text that
\* is not JSON, the JSON null, or a JSON object with any of the fields
Contents ==
  {[kind |-> "none"], [kind |-> "text"], [kind |-> "null"]}
  \cup { [kind |-> "json", value |-> [f \in F |-> FieldValue(f)]] :
           F \in SUBSET (FieldNames \ {"falsehoods"}) }
  \cup { [kind |-> "json",
          value |-> [f \in F \cup {"falsehoods"} |->
                       IF f = "falsehoods" THEN list ELSE FieldValue(f)]] :
           F \in SUBSET (FieldNames \ {"falsehoods"}), list \in FalsehoodLists }

InitJudge ==
  /\ given \in Contents
  /\ chunkArg = 0
  /\ uploadResult = NoUpload
  /\ pageEvaluations = <<>>
  /\ isEvaluating = FALSE
  /\ handlers = <<>>
  /\ pc = "judge"
  /\ allEvaluations = <<>>
  /\ structure = <<>>
  /\ judge = <<>>
  /\ strategy = "none"
  /\ totalFiles = 0
  /\ allTasks = <<>>
  /\ i = 0
  /\ k = 1
  /\ gi = 1
  /\ ni = 1
  /\ filesProcessed = 0
  /\ cur = NoTask
  /\ calls = <<>>
  /\ slept = 0
  /\ response = [status |-> 0]

JudgeCall ==
  /\ pc = "judge"
  /\ response' = evaluateCompletion(given)
  /\ pc' = "judged"
  /\ UNCHANGED <<pageVars, chunkArg, given, structure, judge, strategy, totalFiles, allTasks, i, k,
                 gi, ni, filesProcessed, cur, allEvaluations, calls, slept>>

NextJudge == JudgeCall

JudgeSpec == InitJudge /\ [][NextJudge]_vars

\* ------------------------------------------------------------ BatchSummary
\* Numbers of the summary: a mean is a quotient of integers and is held as
\* such; Math.round(x * 10) / 10 is held in tenths.  With at most five
\* integer scores 0..11 per note type the source's floating point rounds to
\* the same tenth as the exact quotient.
\* Math.round(num / den * 10), halves rounded up
Round1(num, den) == (20 * num + den) \div (2 * den)

RECURSIVE SumSeq(_)
SumSeq(s) == IF s = <<>> THEN 0 ELSE s[1] + SumSeq(Tail(s))

\* the array with the elements of f, each computed once
ArrayOf(f) == <<>> \o f

\* a.variance - b.variance, up to a positive factor
compareVariance(a, b) == a.variance.num * b.variance.den - b.variance.num * a.variance.den

\* a.avgFalsehoods - b.avgFalsehoods, up to a positive factor
compareFalsehoods(a, b) ==
  a.totalFalsehoods * b.transcriptCount - b.totalFalsehoods * a.transcriptCount

\* the comparators handed to sort, by the expression they subtract
compareBy(order, a, b) ==
  CASE order = "b.avgCompositeScore - a.avgCompositeScore" ->
         b.avgCompositeScore - a.avgCompositeScore
    [] order = "b.avgDetailScore - a.avgDetailScore" ->
         b.avgDetailScore - a.avgDetailScore
    [] order = "b.avgTruthfulnessScore - a.avgTruthfulnessScore" ->
         b.avgTruthfulnessScore - a.avgTruthfulnessScore
    [] order = "a.totalFalsehoods - b.totalFalsehoods" ->
         a.totalFalsehoods - b.totalFalsehoods
    [] order = "a.variance - b.variance" -> compareVariance(a, b)
    [] order = "b.variance - a.variance" -> compareVariance(b, a)
    [] order = "a.avgFalsehoods - b.avgFalsehoods" -> compareFalsehoods(a, b)
    [] order = "b.avgFalsehoods - a.avgFalsehoods" -> compareFalsehoods(b, a)
    [] order = "composite of b.results - composite of a.results" ->
         compositeScore(b.results) - compositeScore(a.results)

\* Array.prototype.sort(comparator), which is stable: an element goes behind
\* the elements the comparator puts before it and behind the earlier
\* elements it ties with.
sortWith(s, order) ==
  LET array == ArrayOf(s)
      pos(j) == 1 + Cardinality({x \in 1..Len(array) :
                                   \/ compareBy(order, array[x], array[j]) < 0
                                   \/ compareBy(order, array[x], array[j]) = 0 /\ x < j})
  IN ArrayOf([p \in 1..Len(array) |-> array[CHOOSE j \in 1..Len(array) : pos(j) = p]])

\* "Group evaluations by note filename": Object.entries(noteTypeGroups), in
\* the order in which the file names first appear
noteTypeGroups(evaluations) ==
  LET names == {evaluations[p].noteFileName : p \in 1..Len(evaluations)}
      first(name) ==
        CHOOSE p \in 1..Len(evaluations) :
          /\ evaluations[p].noteFileName = name
          /\ \A q \in 1..(p - 1) : evaluations[q].noteFileName # name
      key(x) ==
        CHOOSE name \in names :
          Cardinality({other \in names : first(other) <= first(name)}) = x
  IN ArrayOf([x \in 1..Cardinality(names) |->
                [filename |-> key(x),
                 evals |-> SelectSeq(evaluations, LAMBDA e : e.noteFileName = key(x))]])

\* Variant of noteTypeStats: the sums are divided by the number of
\* transcripts of the batch, not by the number of evaluations of the note
\* type.
noteTypeStats_perTranscript(evaluations) ==
  LET groups == noteTypeGroups(evaluations)
      count == Len(TranscriptKeys(evaluations))
  IN ArrayOf(
       [x \in 1..Len(groups) |->
          LET evals == groups[x].evals
              sumDetail == SumSeq([y \in 1..Len(evals) |-> evals[y].results.detailScore])
              sumTruthfulness ==
                SumSeq([y \in 1..Len(evals) |-> evals[y].results.truthfulnessScore])
          IN [filename |-> groups[x].filename,
              evaluations |-> evals,
              avgDetailScore |-> Round1(sumDetail, count),
              avgTruthfulnessScore |-> Round1(sumTruthfulness, count),
              avgCompositeScore |-> Round1(sumDetail + sumTruthfulness, 2 * count),
              totalFalsehoods |->
                SumSeq([y \in 1..Len(evals) |-> Len(evals[y].results.falsehoods)]),
              transcriptCount |-> count]])

\* "Calculate statistics for each note type"; the three averages are stored
\* rounded to one decimal
noteTypeStats(evaluations) ==
  LET groups == noteTypeGroups(evaluations)
  IN ArrayOf(
       [x \in 1..Len(groups) |->
          LET evals == groups[x].evals
              sumDetail == SumSeq([y \in 1..Len(evals) |-> evals[y].results.detailScore])
              sumTruthfulness ==
                SumSeq([y \in 1..Len(evals) |-> evals[y].results.truthfulnessScore])
          IN [filename |-> groups[x].filename,
              evaluations |-> evals,
              avgDetailScore |-> Round1(sumDetail, Len(evals)),
              avgTruthfulnessScore |-> Round1(sumTruthfulness, Len(evals)),
              avgCompositeScore |-> Round1(sumDetail + sumTruthfulness, 2 * Len(evals)),
              totalFalsehoods |->
                SumSeq([y \in 1..Len(evals) |-> Len(evals[y].results.falsehoods)]),
              transcriptCount |-> Len(evals)]])

\* "Sort by composite score (best first)": [...noteTypeStats].sort(...)
rankedNoteTypes(evaluations) ==
  sortWith(noteTypeStats(evaluations), "b.avgCompositeScore - a.avgCompositeScore")

\* [...new Set(evaluations.map(e => e.transcriptName))]
transcriptNames(evaluations) == TranscriptKeys(evaluations)

\* one sentence of the commentary: which sentence, the file names it
\* mentions and the number it prints (in tenths), 0 when it prints none
Comment(kind, names, amount) == [kind |-> kind, names |-> names, amount |-> amount]

\* the population variance of the composite scores of a note type, as the
\* quotient num / den: the scores are half the entries of halves
Variance(scores) ==
  LET halves == ArrayOf(scores)
      n == Len(halves)
      total == SumSeq(halves)
  IN [num |-> SumSeq([y \in 1..n |-> (n * halves[y] - total) * (n * halves[y] - total)]),
      den |-> 4 * n * n * n]

\* The stored averages are doubles, each the double nearest to its number of
\* tenths, and best.avgCompositeScore - worst.avgCompositeScore is the
\* correctly rounded difference of two of them.  For tenths 0..110 that
\* difference is on the side of 1 (of 2) on which the exact difference is,
\* except where the exact difference is 1.0 (2.0): there it is 1 (2) or a
\* last bit off, and these are the pairs <<best, worst>> for which it comes
\* out above, e.g. 8.3 - 7.3 = 1.0000000000000009.
scoreDiffAbove ==
  { <<22, 12>>, <<27, 17>>, <<44, 34>>, <<49, 39>>, <<83, 73>>, <<88, 78>>,
    <<44, 24>>, <<49, 29>>, <<54, 34>>, <<59, 39>>, <<83, 63>>, <<88, 68>>,
    <<93, 73>>, <<98, 78>> }

\* scoreDiff > limit, for limit 1 or 2 and averages a, b in tenths
scoreDiffExceeds(a, b, limit) ==
  \/ a - b > 10 * limit
  \/ a - b = 10 * limit /\ <<a, b>> \in scoreDiffAbove

\* generateCommentary, applied to rankedNoteTypes as sorted by composite
\* score.  scoreDiff is compared as the double it is and printed with
\* toFixed(1), in tenths.  The two sorts of the "Detail vs Truthfulness
\* analysis" sort that array in place; it is returned as they leave it, with
\* the commentary.
generateCommentary(ranked) ==
  LET best == ranked[1]
      worst == ranked[Len(ranked)]
      scoreDiff == best.avgCompositeScore - worst.avgCompositeScore
      performance ==
        IF scoreDiffExceeds(best.avgCompositeScore, worst.avgCompositeScore, 2)
        THEN Comment("gap-significant", <<best.filename, worst.filename>>, scoreDiff)
        ELSE IF scoreDiffExceeds(best.avgCompositeScore, worst.avgCompositeScore, 1)
        THEN Comment("gap-moderate", <<best.filename>>, scoreDiff)
        ELSE Comment("gap-consistent", <<>>, scoreDiff)
      byDetail == sortWith(ranked, "b.avgDetailScore - a.avgDetailScore")
      mostDetailed == byDetail[1]
      byTruthfulness ==
        sortWith(byDetail, "b.avgTruthfulnessScore - a.avgTruthfulnessScore")
      mostTruthful == byTruthfulness[1]
      strengths ==
        IF mostDetailed.filename = mostTruthful.filename
           /\ mostDetailed.filename = best.filename
        THEN <<Comment("excels", <<best.filename>>, 0)>>
        ELSE IF mostDetailed.filename # mostTruthful.filename
        THEN <<Comment("different-strengths",
                       <<mostDetailed.filename, mostTruthful.filename>>, 0)>>
        ELSE <<>>
      consistencyScores ==
        ArrayOf(
          [x \in 1..Len(byTruthfulness) |->
             [filename |-> byTruthfulness[x].filename,
              variance |->
                Variance([y \in 1..Len(byTruthfulness[x].evaluations) |->
                            byTruthfulness[x].evaluations[y].results.detailScore
                            + byTruthfulness[x].evaluations[y].results.truthfulnessScore])]])
      ascending == sortWith(consistencyScores, "a.variance - b.variance")
      mostConsistent == ascending[1]
      leastConsistent == sortWith(ascending, "b.variance - a.variance")[1]
      consistency ==
        IF 2 * mostConsistent.variance.num < mostConsistent.variance.den
        THEN <<Comment("consistent", <<mostConsistent.filename>>, 0)>>
        ELSE IF leastConsistent.variance.num > 2 * leastConsistent.variance.den
        THEN <<Comment("inconsistent", <<leastConsistent.filename>>, 0)>>
        ELSE <<>>
      safestFirst == sortWith(byTruthfulness, "a.avgFalsehoods - b.avgFalsehoods")
      safest == safestFirst[1]
      riskiest == sortWith(safestFirst, "b.avgFalsehoods - a.avgFalsehoods")[1]
      issues ==
        IF safest.totalFalsehoods = 0
        THEN <<Comment("no-issues", <<safest.filename>>, 0)>>
        ELSE IF riskiest.totalFalsehoods >= 2 * riskiest.transcriptCount
        THEN <<Comment("needs-attention", <<riskiest.filename>>,
                       Round1(riskiest.totalFalsehoods, riskiest.transcriptCount))>>
        ELSE <<>>
      highQuality == SelectSeq(byTruthfulness, LAMBDA nt : nt.avgCompositeScore >= 80)
      lowQuality == SelectSeq(byTruthfulness, LAMBDA nt : nt.avgCompositeScore < 60)
      quality ==
        IF Len(highQuality) = Len(byTruthfulness)
        THEN <<Comment("all-high-quality", <<>>, 0)>>
        ELSE IF Len(lowQuality) > 0
        THEN <<Comment("below-threshold",
                       [x \in 1..Len(lowQuality) |-> lowQuality[x].filename], 0)>>
        ELSE <<>>
  IN [commentary |-> <<performance>> \o strengths \o consistency \o issues \o quality,
      rankedNoteTypes |-> byTruthfulness]

\* what BatchSummary renders when there are no evaluations: null
NothingRendered ==
  [shown |-> FALSE, transcriptNames |-> <<>>, rankings |-> <<>>, commentary |-> <<>>,
   bestOverall |-> Undefined, mostDetailed |-> Undefined,
   mostTruthful |-> Undefined, fewestIssues |-> Undefined]

\* The element BatchSummary returns.  commentary is generated first; the
\* "Note Type Performance Rankings" and "Best Overall" then read
\* rankedNoteTypes as generateCommentary left it, and the three sorts of the
\* Quick Stats follow, each sorting the array the previous one left.
BatchSummary(evaluations) ==
  IF Len(evaluations) = 0 THEN NothingRendered
  ELSE
    LET generated == generateCommentary(rankedNoteTypes(evaluations))
        listed == generated.rankedNoteTypes
        byDetail == sortWith(listed, "b.avgDetailScore - a.avgDetailScore")
        byTruthfulness ==
          sortWith(byDetail, "b.avgTruthfulnessScore - a.avgTruthfulnessScore")
        byFalsehoods ==
          sortWith(byTruthfulness, "a.totalFalsehoods - b.totalFalsehoods")
    IN [shown |-> TRUE,
        transcriptNames |-> transcriptNames(evaluations),
        rankings |->
          [x \in 1..Len(listed) |->
             [position |-> x,
              filename |-> listed[x].filename,
              transcriptCount |-> listed[x].transcriptCount,
              avgCompositeScore |-> listed[x].avgCompositeScore,
              avgDetailScore |-> listed[x].avgDetailScore,
              avgTruthfulnessScore |-> listed[x].avgTruthfulnessScore,
              totalFalsehoods |-> listed[x].totalFalsehoods,
              breakdown |->
                [y \in 1..Len(listed[x].evaluations) |->
                   [transcriptName |-> listed[x].evaluations[y].transcriptName,
                    detail |-> listed[x].evaluations[y].results.detailScore,
                    truth |-> listed[x].evaluations[y].results.truthfulnessScore,
                    issues |-> Len(listed[x].evaluations[y].results.falsehoods)]]]],
        commentary |-> generated.commentary,
        bestOverall |-> listed[1].filename,
        mostDetailed |-> byDetail[1].filename,
        mostTruthful |-> byTruthfulness[1].filename,
        fewestIssues |-> byFalsehoods[1].filename]

\* Judge answers <<detailScore, truthfulnessScore, severities>> of the
\* evaluations handed to BatchSummary: with V note files per transcript the
\* evaluation of note file v of transcript t carries answer number
\* (t - 1) * V + v of the table, cyclically.
SummaryTables ==
  { << <<9, 9, <<>>>>, <<8, 8, <<"low">>>>, <<7, 7, <<"high", "low">>>>, <<8, 8, <<>>>> >>,
    << <<7, 7, <<"low">>>>, <<7, 8, <<>>>>, <<7, 8, <<"low">>>>, <<8, 7, <<"low">>>>,
       <<9, 9, <<>>>>, <<7, 7, <<>>>> >>,
    << <<9, 7, <<"low", "low">>>>, <<7, 8, <<"high", "high", "low">>>> >>,
    << <<5, 6, <<"high">>>>, <<0, 11, <<"high", "medium">>>>, <<3, 4, <<"medium">>>> >>,
    << <<9, 9, <<>>>>, <<8, 9, <<>>>>, <<10, 8, <<"low">>>> >>,
    << <<10, 10, <<>>>>, <<4, 4, <<>>>>, <<4, 4, <<>>>>, <<10, 10, <<>>>> >>,
    << <<8, 8, <<>>>>, <<7, 7, <<"low">>>>, <<8, 9, <<>>>>, <<7, 7, <<"low">>>>,
       <<8, 9, <<>>>>, <<8, 8, <<"low">>>> >>,
    << <<9, 9, <<>>>>, <<9, 9, <<"high", "low">>>>, <<9, 9, <<>>>>,
       <<1, 1, <<"high", "medium">>>> >>,
    << <<7, 8, <<"low">>>>, <<8, 8, <<"low">>>>, <<8, 8, <<"low">>>>, <<8, 8, <<"low">>>>,
       <<7, 7, <<"low">>>>, <<7, 8, <<"low">>>> >> }

\* The output of a batch over T transcripts with note files 1..V each, in
\* batch order, ranked, without the record of slot `missing` (a failed
\* call) when missing > 0.
SummaryRecords(T, V, table, missing) ==
  LET kept == SelectSeq([x \in 1..(T * V) |-> x], LAMBDA x : x # missing)
      task(x) == [transcriptName |-> ((x - 1) \div V) + 1, noteFile |-> ((x - 1) % V) + 1]
  IN ApplyRankings(
       ArrayOf([p \in 1..Len(kept) |->
                  Evaluation(task(kept[p]),
                             Convert(JudgeValue(table[((kept[p] - 1) % Len(table)) + 1],
                                                task(kept[p]))))]))

SummaryInputs ==
  { SummaryRecords(T, V, table, missing) :
      T \in 1..MaxTranscripts, V \in 1..MaxVariants,
      table \in SummaryTables, missing \in 0..(MaxTranscripts * MaxVariants) }

InitSummary ==
  /\ given \in SummaryInputs
  /\ chunkArg = 0
  /\ uploadResult = NoUpload
  /\ pageEvaluations = <<>>
  /\ isEvaluating = FALSE
  /\ handlers = <<>>
  /\ allEvaluations = given
  /\ pc = "render"
  /\ response = [status |-> 0, rendered |-> <<>>]
  /\ structure = <<>>
  /\ judge = <<>>
  /\ strategy = "none"
  /\ totalFiles = 0
  /\ allTasks = <<>>
  /\ i = 0
  /\ k = 1
  /\ gi = 1
  /\ ni = 1
  /\ filesProcessed = 0
  /\ cur = NoTask
  /\ calls = <<>>
  /\ slept = 0

\* Variant of Render: the evaluations handed in are sorted in place, best
\* composite score first, before they are summarised.
Render_sortsEvaluations ==
  /\ pc = "render"
  /\ Len(response.rendered) < MaxRenders
  /\ allEvaluations' =
       sortWith(allEvaluations, "composite of b.results - composite of a.results")
  /\ response' = [response EXCEPT !.rendered = Append(@, BatchSummary(allEvaluations'))]
  /\ UNCHANGED <<pageVars, chunkArg, given, structure, judge, pc, strategy, totalFiles, allTasks, i, k,
                 gi, ni, filesProcessed, cur, calls, slept>>

\* One render of <BatchSummary evaluations={evaluations} />: every const of
\* the component is computed anew from the evaluations, which are only read.
Render ==
  /\ pc = "render"
  /\ Len(response.rendered) < MaxRenders
  /\ allEvaluations' = allEvaluations
  /\ response' = [response EXCEPT !.rendered = Append(@, BatchSummary(allEvaluations))]
  /\ UNCHANGED <<pageVars, chunkArg, given, structure, judge, pc, strategy, totalFiles, allTasks, i, k,
                 gi, ni, filesProcessed, cur, calls, slept>>

NextSummary == Render

SummarySpec == InitSummary /\ [][NextSummary]_vars

\* =================================================================== claims
GroupPositions(evaluations, g) ==
  {p \in 1..Len(evaluations) : evaluations[p].transcriptName = g}

GroupRanks(evaluations, g) ==
  {evaluations[p].results.overallRanking : p \in GroupPositions(evaluations, g)}

DenseRanks(evaluations, g) ==
  GroupRanks(evaluations, g) = 1..Cardinality(GroupPositions(evaluations, g))

FailedCalls == {c \in 1..Len(calls) : calls[c].outcome = "failed"}

\* C1: after any batch run, under every strategy and every pattern of judge
\* failures, the overallRanking values of the returned evaluations of one
\* transcript group are exactly 1..k, k the number of returned evaluations of
\* that group (so one has rank 1 and one has rank k).
C1_DenseRanking ==
  pc = "done" =>
    \A g \in 1..Len(structure) : DenseRanks(response.evaluations, g)

\* a finished run with a failed call and a group of three returned
\* evaluations, two of them with equal composite score
C1_Witness ==
  /\ pc = "done"
  /\ FailedCalls # {}
  /\ \E g \in 1..Len(structure) :
       /\ Cardinality(GroupPositions(response.evaluations, g)) = 3
       /\ \E p, q \in GroupPositions(response.evaluations, g) :
            /\ p # q
            /\ compositeScore(response.evaluations[p].results)
                 = compositeScore(response.evaluations[q].results)

\* C2: rankEvaluations orders by composite score: a record with a higher
\* composite score gets the smaller rank, and of two records with equal
\* composite score the one earlier in the input gets the smaller rank.
C2_RankOrder ==
  pc = "ranked" =>
    \A a, b \in 1..Len(given) :
      /\ compositeScore(given[a]) > compositeScore(given[b])
           => allEvaluations[a].overallRanking < allEvaluations[b].overallRanking
      /\ (compositeScore(given[a]) = compositeScore(given[b]) /\ a < b)
           => allEvaluations[a].overallRanking < allEvaluations[b].overallRanking

\* the scenario: scores (9,9), (7,8), (5,6) in that order get ranks 1, 2, 3
C2_Witness ==
  /\ pc = "ranked"
  /\ given = <<Results(<<9, 9>>), Results(<<7, 8>>), Results(<<5, 6>>)>>
  /\ [x \in 1..3 |-> allEvaluations[x].overallRanking] = <<1, 2, 3>>

\* ------------------------------------------------ the enumeration of tasks
\* number of tasks of the groups before group g that have a transcript
RECURSIVE TasksBefore(_)
TasksBefore(g) ==
  IF g <= 1 THEN 0
  ELSE TasksBefore(g - 1)
       + (IF structure[g - 1].transcript THEN Len(structure[g - 1].notes) ELSE 0)

\* T: the number of enumerated tasks
TaskCount == TasksBefore(Len(structure) + 1)

\* position of a task in the enumeration order (groups in structure order,
\* notes in listed order)
TaskNumber(t) == TasksBefore(t.transcriptName) + t.noteFile

CallTask(c) == [transcriptName |-> calls[c].transcriptName, noteFile |-> calls[c].noteFile]

RecordTask(e) == [transcriptName |-> e.transcriptName, noteFile |-> e.noteFileName]

Enumerated ==
  UNION { { [transcriptName |-> g, noteFile |-> structure[g].notes[n]] :
              n \in 1..Len(structure[g].notes) } :
          g \in {h \in 1..Len(structure) : structure[h].transcript} }

FailedIn(g) == {c \in FailedCalls : calls[c].transcriptName = g}

\* every enumerated task was attempted, every answered call has its record,
\* only failed calls lack one, and each group holds its N minus failed
\* records, ranked 1..(N - failed)
Isolated ==
  /\ {CallTask(c) : c \in 1..Len(calls)} = Enumerated
  /\ \A c \in 1..Len(calls) :
       calls[c].outcome = "ok" =>
         \E p \in 1..Len(response.evaluations) :
           RecordTask(response.evaluations[p]) = CallTask(c)
  /\ \A p \in 1..Len(response.evaluations) :
       \E c \in 1..Len(calls) :
         /\ calls[c].outcome = "ok"
         /\ RecordTask(response.evaluations[p]) = CallTask(c)
  /\ \A g \in 1..Len(structure) :
       structure[g].transcript =>
         /\ Cardinality(GroupPositions(response.evaluations, g))
              = Len(structure[g].notes) - Cardinality(FailedIn(g))
         /\ DenseRanks(response.evaluations, g)

\* C3 as stated: in a batch run of any strategy, when a judge call fails every
\* other enumerated task is still attempted, every answered task is in the
\* output and the group of the failed task holds N-1 densely ranked records.
C3_AnyStrategy ==
  (pc = "done" /\ FailedCalls # {}) => Isolated

\* C3 (amended): the same in a direct or chunked batch run.
C3_FailureIsolation ==
  (pc = "done" /\ FailedCalls # {} /\ strategy \in {"direct", "chunked"}) => Isolated

\* a chunked run in which exactly one call failed, whose group returns two
\* of its three records
C3_Witness ==
  /\ pc = "done" /\ strategy = "chunked"
  /\ Cardinality(FailedCalls) = 1
  /\ Len(calls) > chunkSize
  /\ \E c \in FailedCalls :
       /\ Len(structure[calls[c].transcriptName].notes) = 3
       /\ Cardinality(GroupPositions(response.evaluations, calls[c].transcriptName)) = 2

StrategyFor(count) ==
  IF count > largeBatchLimit THEN "partial"
  ELSE IF count > mediumBatchLimit THEN "chunked"
  ELSE "direct"

\* C4: the strategy is chosen by the number T of enumerated tasks (notes of
\* groups that have a transcript): T <= 5 direct, 5 < T <= 100 chunked,
\* T > 100 partial-cap.
C4_StrategyByTaskCount ==
  strategy # "none" => strategy = StrategyFor(TaskCount)

\* C5: in the partial-cap strategy with T > 100 no task beyond the 50th is
\* ever attempted, and the finished run has attempted exactly the first 50
\* tasks of the enumeration, whether or not calls failed.
C5_FirstFiftyOnly ==
  (strategy = "partial" /\ TaskCount > largeBatchLimit) =>
    /\ Len(calls) <= maxFiles
    /\ pc = "done" =>
         /\ Len(calls) = maxFiles
         /\ \A c \in 1..Len(calls) : TaskNumber(CallTask(c)) = c

\* C6: a partial-cap response has isPartial = true, processedFiles equal to
\* the number of returned evaluations, at most 50 and at most totalFiles;
\* direct and chunked responses carry no isPartial field.
C6_PartialResponse ==
  pc = "done" =>
    IF strategy = "partial"
    THEN /\ "isPartial" \in DOMAIN response
         /\ response.isPartial = TRUE
         /\ response.processedFiles = Len(response.evaluations)
         /\ response.processedFiles <= maxFiles
         /\ response.processedFiles <= response.totalFiles
    ELSE "isPartial" \notin DOMAIN response

\* a partial-cap response cut off at the cap after a failed call
C6_Witness ==
  /\ pc = "done" /\ strategy = "partial"
  /\ response.processedFiles = maxFiles
  /\ response.totalFiles > maxFiles
  /\ FailedCalls # {}

AllCalled(g) ==
  \A n \in 1..Len(structure[g].notes) :
    \E c \in 1..Len(calls) :
      CallTask(c) = [transcriptName |-> g, noteFile |-> structure[g].notes[n]]

\* C7: a group without transcript is skipped under every strategy: no judge
\* call is made for its notes, it has no record in the output, the request
\* succeeds, and the groups after it are processed (up to the cap of the
\* partial-cap strategy).
C7_MissingTranscriptSkipped ==
  /\ \A c \in 1..Len(calls) : structure[calls[c].transcriptName].transcript
  /\ pc = "done" =>
       /\ response.status = 200
       /\ \A p \in 1..Len(response.evaluations) :
            structure[response.evaluations[p].transcriptName].transcript
       /\ \A g, h \in 1..Len(structure) :
            (~structure[g].transcript /\ g < h /\ structure[h].transcript) =>
              \/ AllCalled(h)
              \/ strategy = "partial" /\ Len(response.evaluations) >= maxFiles

\* a finished run whose first group has no transcript and whose second group
\* was evaluated in full
C7_Witness ==
  /\ pc = "done"
  /\ Len(structure) = 2
  /\ ~structure[1].transcript /\ structure[2].transcript
  /\ Len(structure[1].notes) >= 2
  /\ Len(calls) = Len(structure[2].notes)
  /\ Len(response.evaluations) = Len(structure[2].notes)

OkCalls == SelectSeq(calls, LAMBDA c : c.outcome = "ok")

\* C8: a batch request never ends in a hard failure because judge calls
\* failed: for every set of failing calls, all of them included, the response
\* is a success carrying exactly the records of the answered calls.
C8_NoHardFailure ==
  pc = "done" =>
    /\ response.status = 200
    /\ response.success = TRUE
    /\ Len(response.evaluations) = Len(OkCalls)
    /\ \A p \in 1..Len(OkCalls) :
         RecordTask(response.evaluations[p])
           = [transcriptName |-> OkCalls[p].transcriptName,
              noteFile |-> OkCalls[p].noteFile]

\* a finished run in which every judge call failed
C8_Witness ==
  /\ pc = "done"
  /\ Len(calls) >= 3
  /\ \A c \in 1..Len(calls) : calls[c].outcome = "failed"
  /\ response.status = 200 /\ response.success = TRUE
  /\ response.evaluations = <<>>

\* C9: each task is attempted at most once in a batch run: no task occurs
\* twice in the log of judge calls, whether its call failed or was answered.
C9_AtMostOnce ==
  Cardinality({CallTask(c) : c \in 1..Len(calls)}) = Len(calls)

\* a run that went on after a failed call and an answered call
C9_Witness ==
  /\ pc = "done"
  /\ Len(calls) >= 3
  /\ calls[1].outcome = "failed"
  /\ calls[2].outcome = "ok"

\* C10: judge calls are issued in enumeration order: the c-th call of a run
\* is for the c-th task of the enumeration (groups in structure order, notes
\* in listed order).
C10_EnumerationOrder ==
  \A c \in 1..Len(calls) :
    /\ structure[calls[c].transcriptName].transcript
    /\ TaskNumber(CallTask(c)) = c

\* a finished run over two groups with transcripts in which a call failed
C10_Witness ==
  /\ pc = "done"
  /\ Len(structure) = 2
  /\ structure[1].transcript /\ structure[2].transcript
  /\ Len(calls) = 6
  /\ FailedCalls # {}
  /\ calls[4].transcriptName = 2

\* ------------------------------------------------- when ranks are written
\* every task of group g has been attempted and its call has ended
GroupSettled(g) ==
  \A n \in 1..Len(structure[g].notes) :
    \E c \in 1..Len(calls) :
      /\ CallTask(c) = [transcriptName |-> g, noteFile |-> structure[g].notes[n]]
      /\ calls[c].outcome \in {"ok", "failed"}

OkIn(g) == {c \in 1..Len(calls) : calls[c].transcriptName = g /\ calls[c].outcome = "ok"}

\* C11: in the direct and chunked strategies a record's overallRanking is 0
\* from its creation until every task of its group has completed or failed;
\* a group that carries ranks holds the records of all its answered calls.
C11_RankedWhenSettled ==
  strategy \in {"direct", "chunked"} =>
    \A p \in 1..Len(allEvaluations) :
      LET g == allEvaluations[p].transcriptName
      IN IF GroupSettled(g) /\ pc = "done"
         THEN /\ allEvaluations[p].results.overallRanking >= 1
              /\ Cardinality(GroupPositions(allEvaluations, g)) = Cardinality(OkIn(g))
         ELSE allEvaluations[p].results.overallRanking = 0

\* a chunked run over two groups of three: the second group spans two chunks,
\* one of its calls failed, and its two records carry ranks 1 and 2
C11_Witness ==
  /\ pc = "done" /\ strategy = "chunked"
  /\ Len(structure) = 2
  /\ Len(calls) = 6
  /\ Cardinality(FailedIn(2)) = 1
  /\ GroupRanks(allEvaluations, 2) = {1, 2}

\* ------------------------------------------------------- calls in flight
InFlight(log) == {c \in 1..Len(log) : log[c].outcome = "pending"}

\* C12: within one batch run at most one judge call is in flight: a call is
\* issued only when every earlier call has been answered or has failed, and
\* the result list grows only by the record of the call that has just been
\* answered, with no call in flight afterwards.
C12_OneInFlight ==
  /\ [](Cardinality(InFlight(calls)) <= 1)
  /\ [][ /\ Len(calls') > Len(calls) =>
              /\ InFlight(calls) = {}
              /\ allEvaluations' = allEvaluations
         /\ Len(allEvaluations') > Len(allEvaluations) =>
              /\ InFlight(calls) = {Len(calls)}
              /\ InFlight(calls') = {}
              /\ Len(calls') = Len(calls)
              /\ Len(allEvaluations') = Len(allEvaluations) + 1 ]_vars

\* the third call of a run is in flight after an answered and a failed call
C12_Witness ==
  /\ pc = "await"
  /\ Len(calls) = 3
  /\ InFlight(calls) = {3}
  /\ calls[1].outcome = "ok" /\ calls[2].outcome = "failed"
  /\ Len(allEvaluations) = 1

\* ------------------------------------------------------ rate-limit delay
DelayOf(strat) ==
  IF strat = "direct" THEN directDelayMs
  ELSE IF strat = "chunked" THEN chunkDelayMs
  ELSE partialDelayMs

\* C13: a fixed rate-limit delay (1000 ms direct, 100 ms chunked) separates
\* every two consecutive judge calls of a batch run, also when the earlier
\* of the two calls failed: a call that is not the first of its run is issued
\* only after the delay has been slept since the previous call.
C13_DelayBetweenCalls ==
  [][ (/\ strategy \in {"direct", "chunked"}
       /\ Len(calls) >= 1
       /\ Len(calls') > Len(calls)) => slept = DelayOf(strategy) ]_vars

\* ------------------------------------------------ rankEvaluations' effects
\* C14 as stated: rankEvaluations is pure: the records handed in are not
\* modified (their overallRanking is as before the call) and the returned
\* sequence is in rank order.
C14_PureRanker ==
  pc = "ranked" =>
    /\ allEvaluations = given
    /\ \A p \in 1..Len(response.returned) :
         response.returned[p].overallRanking = p

\* C14 (amended): rankEvaluations ranks in place: it returns the sequence it
\* was handed, every record at its input position with its rank written into
\* it and no other field changed.
C14_RanksInPlace ==
  pc = "ranked" =>
    /\ response.returned = allEvaluations
    /\ Len(allEvaluations) = Len(given)
    /\ \A idx \in 1..Len(given) :
         /\ allEvaluations[idx].overallRanking \in 1..Len(given)
         /\ [allEvaluations[idx] EXCEPT !.overallRanking = 0] = given[idx]

\* (5,6) before (9,9): the sequence comes back in input order, ranks 2 and 1
\* written into the records handed in
C14_Witness ==
  /\ pc = "ranked"
  /\ given = <<Results(<<5, 6>>), Results(<<9, 9>>)>>
  /\ allEvaluations[1].overallRanking = 2
  /\ allEvaluations[2].overallRanking = 1
  /\ response.returned[1].detailScore = 5

\* ------------------------------------------------- judge answer validation
\* the answer is a JSON object with every field of the fixed shape and only
\* declared severities
WellShaped(content) ==
  /\ content.kind = "json"
  /\ DOMAIN content.value = FieldNames
  /\ \A x \in 1..Len(content.value.falsehoods) :
       /\ "severity" \in DOMAIN content.value.falsehoods[x]
       /\ content.value.falsehoods[x].severity \in Severities

\* C15: evaluateDentalNotes fails closed: when the judge's answer is empty,
\* is not JSON, lacks a field of the fixed shape or carries a severity
\* outside low / medium / high, the call fails and returns no record.
C15_FailsClosed ==
  (pc = "judged" /\ ~WellShaped(given)) => response.outcome = "thrown"

\* ------------------------------------------------ records keep their values
\* C16: every record of a batch output carries the values the judge returned
\* for its own (transcript, note) pair: scores (also outside 1..10),
\* falsehoods and summary are as converted from that answer, overallRanking
\* is the only field that differs from the record as created, and results
\* are not swapped between the evaluations of a group.
C16_ValuesUnchanged ==
  pc = "done" =>
    \A p \in 1..Len(response.evaluations) :
      LET e == response.evaluations[p]
      IN /\ [e.results EXCEPT !.overallRanking = 0]
              = evaluateDentalNotes(RecordTask(e))
         /\ e.results.summary = RecordTask(e)
         /\ e.results.overallRanking >= 1

\* an output holding a record with truthfulness score 11, in a group whose
\* second record is ranked first
C16_Witness ==
  /\ pc = "done"
  /\ \E p, q \in 1..Len(response.evaluations) :
       /\ response.evaluations[p].results.truthfulnessScore = 11
       /\ response.evaluations[p].results.overallRanking >= 1
       /\ response.evaluations[q].transcriptName = response.evaluations[p].transcriptName
       /\ response.evaluations[q].noteFileName = 2
       /\ response.evaluations[q].results.overallRanking = 1
       /\ Len(response.evaluations[q].results.falsehoods) = 0

\* ------------------------------------------------------ cross-group summary
Rendered == response.rendered

RecordsOf(v) == SelectSeq(given, LAMBDA e : e.noteFileName = v)

\* sums over the records of v: detail, truthfulness, issues, twice the
\* composite, and the square of twice the composite
DetailSum(v) == SumSeq([y \in 1..Len(RecordsOf(v)) |-> RecordsOf(v)[y].results.detailScore])

TruthSum(v) ==
  SumSeq([y \in 1..Len(RecordsOf(v)) |-> RecordsOf(v)[y].results.truthfulnessScore])

IssueSum(v) ==
  SumSeq([y \in 1..Len(RecordsOf(v)) |-> Len(RecordsOf(v)[y].results.falsehoods)])

SquareSum(v) ==
  SumSeq([y \in 1..Len(RecordsOf(v)) |->
            compositeScore(RecordsOf(v)[y].results) * compositeScore(RecordsOf(v)[y].results)])

\* population variance of the per-record composite, E[x^2] - E[x]^2, as the
\* quotient VarNum / VarDen
VarNum(v) ==
  Len(RecordsOf(v)) * SquareSum(v)
  - (DetailSum(v) + TruthSum(v)) * (DetailSum(v) + TruthSum(v))

VarDen(v) == 4 * Len(RecordsOf(v)) * Len(RecordsOf(v))

VarLeq(v, w) == VarNum(v) * VarDen(w) <= VarNum(w) * VarDen(v)

RateLeq(v, w) == IssueSum(v) * Len(RecordsOf(w)) <= IssueSum(w) * Len(RecordsOf(v))

NoteTypes == {given[p].noteFileName : p \in 1..Len(given)}

Sentences(out, kind) == SelectSeq(out.commentary, LAMBDA c : c.kind = kind)

\* C18: for each note file name the summary shows, over exactly the records
\* carrying that name, the mean detail, mean truthfulness and mean composite
\* score (each to one decimal) and the total issue count; the commentary
\* goes by the issue rate total issues / number of records and by the
\* population variance of the per-record composite, and the note type it
\* reports as consistent is one of least variance.
C18_SummaryStatistics ==
  (pc = "render" /\ Len(Rendered) >= 1 /\ Len(given) >= 1) =>
    LET out == Rendered[1]
    IN /\ {out.rankings[x].filename : x \in 1..Len(out.rankings)} = NoteTypes
       /\ Len(out.rankings) = Cardinality(NoteTypes)
       /\ \A x \in 1..Len(out.rankings) :
            LET v == out.rankings[x].filename
                n == Len(RecordsOf(v))
            IN /\ out.rankings[x].transcriptCount = n
               /\ out.rankings[x].breakdown =
                    [y \in 1..n |->
                       [transcriptName |-> RecordsOf(v)[y].transcriptName,
                        detail |-> RecordsOf(v)[y].results.detailScore,
                        truth |-> RecordsOf(v)[y].results.truthfulnessScore,
                        issues |-> Len(RecordsOf(v)[y].results.falsehoods)]]
               /\ out.rankings[x].avgDetailScore = Round1(DetailSum(v), n)
               /\ out.rankings[x].avgTruthfulnessScore = Round1(TruthSum(v), n)
               /\ out.rankings[x].avgCompositeScore
                    = Round1(DetailSum(v) + TruthSum(v), 2 * n)
               /\ out.rankings[x].totalFalsehoods = IssueSum(v)
       /\ IF \E v \in NoteTypes : 2 * VarNum(v) < VarDen(v)
          THEN /\ Len(Sentences(out, "consistent")) = 1
               /\ Len(Sentences(out, "inconsistent")) = 0
               /\ \A w \in NoteTypes : VarLeq(Sentences(out, "consistent")[1].names[1], w)
          ELSE /\ Len(Sentences(out, "consistent")) = 0
               /\ IF \E v \in NoteTypes : VarNum(v) > 2 * VarDen(v)
                  THEN /\ Len(Sentences(out, "inconsistent")) = 1
                       /\ \A w \in NoteTypes :
                            VarLeq(w, Sentences(out, "inconsistent")[1].names[1])
                  ELSE Len(Sentences(out, "inconsistent")) = 0
       /\ IF \E v \in NoteTypes : IssueSum(v) = 0
          THEN /\ Len(Sentences(out, "no-issues")) = 1
               /\ Len(Sentences(out, "needs-attention")) = 0
               /\ IssueSum(Sentences(out, "no-issues")[1].names[1]) = 0
          ELSE /\ Len(Sentences(out, "no-issues")) = 0
               /\ IF \E v \in NoteTypes : IssueSum(v) >= 2 * Len(RecordsOf(v))
                  THEN /\ Len(Sentences(out, "needs-attention")) = 1
                       /\ LET r == Sentences(out, "needs-attention")[1]
                          IN /\ \A w \in NoteTypes : RateLeq(w, r.names[1])
                             /\ r.amount = Round1(IssueSum(r.names[1]),
                                                   Len(RecordsOf(r.names[1])))
                  ELSE Len(Sentences(out, "needs-attention")) = 0

\* the scenario: composites 9.0 and 7.0 for note type 1 (mean 8.0, variance
\* 1.0), 8.0 and 8.0 for note type 2 (mean 8.0, variance 0.0), and note type
\* 2 is reported as consistent
C18_Witness ==
  /\ pc = "render" /\ Len(Rendered) >= 1
  /\ Len(given) = 4
  /\ [y \in 1..2 |-> compositeScore(RecordsOf(1)[y].results)] = <<18, 14>>
  /\ [y \in 1..2 |-> compositeScore(RecordsOf(2)[y].results)] = <<16, 16>>
  /\ VarNum(1) = VarDen(1)
  /\ VarNum(2) = 0
  /\ \A x \in 1..2 : Rendered[1].rankings[x].avgCompositeScore = 80
  /\ Sentences(Rendered[1], "consistent")[1].names = <<2>>

\* ------------------------------------------------- rounding of the means
\* twice the sum of the composites of the records of v
CompSum(v) == DetailSum(v) + TruthSum(v)

\* the unrounded mean composite of v is below / equal to that of w
MeanLess(v, w) == CompSum(v) * Len(RecordsOf(w)) < CompSum(w) * Len(RecordsOf(v))

MeanEqual(v, w) == CompSum(v) * Len(RecordsOf(w)) = CompSum(w) * Len(RecordsOf(v))

FirstSeen(v) == CHOOSE p \in 1..Len(given) :
                  /\ given[p].noteFileName = v
                  /\ \A q \in 1..(p - 1) : given[q].noteFileName # v

\* the ranking "by composite score (best first)" goes by the unrounded means
RankedByTrueMean ==
  LET ranked == rankedNoteTypes(given)
  IN \A p, q \in 1..Len(ranked) :
       p < q =>
         /\ ~MeanLess(ranked[p].filename, ranked[q].filename)
         /\ MeanEqual(ranked[p].filename, ranked[q].filename)
              => FirstSeen(ranked[p].filename) < FirstSeen(ranked[q].filename)

\* the gap sentence goes by the difference of the greatest and the least
\* unrounded mean, num / den, and prints it to one decimal
GapByTrueMean ==
  LET top == CHOOSE v \in NoteTypes : \A w \in NoteTypes : ~MeanLess(v, w)
      low == CHOOSE v \in NoteTypes : \A w \in NoteTypes : ~MeanLess(w, v)
      num == CompSum(top) * Len(RecordsOf(low)) - CompSum(low) * Len(RecordsOf(top))
      den == 2 * Len(RecordsOf(top)) * Len(RecordsOf(low))
      gap == Rendered[1].commentary[1]
  IN /\ gap.kind = IF num > 2 * den THEN "gap-significant"
                   ELSE IF num > den THEN "gap-moderate"
                   ELSE "gap-consistent"
     /\ gap.amount = Round1(num, den)

\* the quality sentences go by the unrounded means: >= 8 and < 6
QualityByTrueMean ==
  LET high == {v \in NoteTypes : CompSum(v) >= 16 * Len(RecordsOf(v))}
      low == {v \in NoteTypes : CompSum(v) < 12 * Len(RecordsOf(v))}
      out == Rendered[1]
  IN /\ Len(Sentences(out, "all-high-quality")) = (IF high = NoteTypes THEN 1 ELSE 0)
     /\ Len(Sentences(out, "below-threshold"))
          = (IF high # NoteTypes /\ low # {} THEN 1 ELSE 0)
     /\ \A x \in 1..Len(Sentences(out, "below-threshold")) :
          LET names == Sentences(out, "below-threshold")[x].names
          IN {names[y] : y \in 1..Len(names)} = low

\* C19: rounding to one decimal is for display only: the ranking of the note
\* types, the performance-gap difference and the quality thresholds (>= 8,
\* < 6) go by the unrounded means.
C19_RoundingForDisplayOnly ==
  (pc = "render" /\ Len(Rendered) >= 1 /\ Len(given) >= 1) =>
    /\ RankedByTrueMean
    /\ GapByTrueMean
    /\ QualityByTrueMean

\* ------------------------------------------------- the ranking as rendered
\* C20: the ranking the summary presents, positions 1..M of the performance
\* rankings and the note type named Best Overall, is ordered by mean
\* composite score descending, ties keeping first-seen order, in the list as
\* rendered after the commentary has been generated.
C20_RenderedRanking ==
  (pc = "render" /\ Len(Rendered) >= 1 /\ Len(given) >= 1) =>
    LET out == Rendered[1]
    IN /\ \A p, q \in 1..Len(out.rankings) :
            p < q =>
              /\ out.rankings[p].avgCompositeScore >= out.rankings[q].avgCompositeScore
              /\ MeanEqual(out.rankings[p].filename, out.rankings[q].filename)
                   => FirstSeen(out.rankings[p].filename) < FirstSeen(out.rankings[q].filename)
       /\ out.bestOverall = out.rankings[1].filename
       /\ \A x \in 1..Len(out.rankings) :
            out.rankings[x].filename = out.bestOverall =>
              \A y \in 1..Len(out.rankings) :
                out.rankings[x].avgCompositeScore >= out.rankings[y].avgCompositeScore

\* ---------------------------------------------------------- the commentary
\* A mean is read in two ways below: unrounded, as the quotient of the sums
\* over the records, and as the summary holds and shows it, rounded to one
\* decimal.  A statement about "the mean" is taken to fail only where it
\* fails in both readings.
Summarised == pc = "render" /\ Len(Rendered) >= 1 /\ Len(given) >= 1

\* the wording for a difference num / den
GapWording(num, den) ==
  IF num > 2 * den THEN "gap-significant"
  ELSE IF num > den THEN "gap-moderate"
  ELSE "gap-consistent"

\* the wording for the difference of the greatest and the least unrounded
\* mean composite
GapWordingByTrueMean ==
  LET top == CHOOSE v \in NoteTypes : \A w \in NoteTypes : ~MeanLess(v, w)
      low == CHOOSE v \in NoteTypes : \A w \in NoteTypes : ~MeanLess(w, v)
  IN GapWording(CompSum(top) * Len(RecordsOf(low)) - CompSum(low) * Len(RecordsOf(top)),
                2 * Len(RecordsOf(top)) * Len(RecordsOf(low)))

\* the mean composite of v to one decimal, in tenths
ShownMean(v) == Round1(CompSum(v), 2 * Len(RecordsOf(v)))

\* the wording for the difference of the greatest and the least mean
\* composite to one decimal
GapWordingByShownMean ==
  LET top == CHOOSE v \in NoteTypes : \A w \in NoteTypes : ShownMean(v) >= ShownMean(w)
      low == CHOOSE v \in NoteTypes : \A w \in NoteTypes : ShownMean(v) <= ShownMean(w)
  IN GapWording(ShownMean(top) - ShownMean(low), 10)

GapSentences(out) ==
  SelectSeq(out.commentary,
            LAMBDA c : c.kind \in {"gap-significant", "gap-moderate", "gap-consistent"})

\* C21: for a non-empty set of note types the commentary has exactly one
\* performance-gap sentence, chosen by d = best mean composite - worst mean
\* composite: the significant wording for d > 2, the moderate wording for
\* 1 < d <= 2, the consistent wording for d <= 1.
C21_PerformanceGap ==
  Summarised =>
    /\ Len(GapSentences(Rendered[1])) = 1
    /\ GapSentences(Rendered[1])[1].kind \in {GapWordingByTrueMean, GapWordingByShownMean}

\* v stands before w in the ranking by unrounded mean composite, ties
\* first-seen
BeforeByTrueMean(v, w) ==
  \/ MeanLess(w, v)
  \/ MeanEqual(v, w) /\ FirstSeen(v) <= FirstSeen(w)

\* v stands before w in the ranking by mean composite to one decimal, ties
\* first-seen
BeforeByShownMean(v, w) ==
  \/ ShownMean(v) > ShownMean(w)
  \/ ShownMean(v) = ShownMean(w) /\ FirstSeen(v) <= FirstSeen(w)

\* the note type that leads a mean sum(v) / count(v) among the unrounded
\* means, ties going to the one ranked first
LeaderByTrueMean(sum, count) ==
  CHOOSE v \in NoteTypes :
    \A w \in NoteTypes :
      \/ sum[v] * count[w] > sum[w] * count[v]
      \/ sum[v] * count[w] = sum[w] * count[v] /\ BeforeByTrueMean(v, w)

\* the same among the means to one decimal
LeaderByShownMean(sum, count) ==
  CHOOSE v \in NoteTypes :
    \A w \in NoteTypes :
      \/ Round1(sum[v], count[v]) > Round1(sum[w], count[w])
      \/ Round1(sum[v], count[v]) = Round1(sum[w], count[w]) /\ BeforeByShownMean(v, w)

DetailSums == [v \in NoteTypes |-> DetailSum(v)]

TruthSums == [v \in NoteTypes |-> TruthSum(v)]

CompSums == [v \in NoteTypes |-> CompSum(v)]

Counts == [v \in NoteTypes |-> Len(RecordsOf(v))]

TwiceCounts == [v \in NoteTypes |-> 2 * Len(RecordsOf(v))]

\* the notes due when `detailed` leads detail, `accurate` leads accuracy and
\* `overall` leads the composite ranking
NotesDue(detailed, accurate, overall) ==
  [divergence |-> IF detailed # accurate THEN 1 ELSE 0,
   winner |-> IF detailed = accurate /\ detailed = overall THEN 1 ELSE 0]

NotesEmitted(out) ==
  [divergence |-> Len(Sentences(out, "different-strengths")),
   winner |-> Len(Sentences(out, "excels"))]

\* C22: the divergence note is emitted exactly when the note type with the
\* highest mean detail differs from the one with the highest mean accuracy,
\* the clear-winner note exactly when one note type leads detail, accuracy
\* and the composite ranking, at most one of the two is emitted, and a tie in
\* a mean goes to the note type that comes first in the composite ranking.
C22_DivergenceOrWinner ==
  Summarised =>
    /\ NotesEmitted(Rendered[1]).divergence + NotesEmitted(Rendered[1]).winner <= 1
    /\ NotesEmitted(Rendered[1]) \in
         { NotesDue(LeaderByTrueMean(DetailSums, Counts),
                    LeaderByTrueMean(TruthSums, Counts),
                    LeaderByTrueMean(CompSums, TwiceCounts)),
           NotesDue(LeaderByShownMean(DetailSums, Counts),
                    LeaderByShownMean(TruthSums, Counts),
                    LeaderByShownMean(CompSums, TwiceCounts)) }

\* C23: the consistency flags are independent: a note type of least variance
\* is flagged exceptional whenever its variance is below 0.5, and a note type
\* of greatest variance is flagged for significant variation whenever its
\* variance is above 2, both notes being emitted when both hold.
C23_ConsistencyFlags ==
  Summarised =>
    /\ Len(Sentences(Rendered[1], "consistent"))
         = (IF \E v \in NoteTypes : 2 * VarNum(v) < VarDen(v) THEN 1 ELSE 0)
    /\ Len(Sentences(Rendered[1], "inconsistent"))
         = (IF \E v \in NoteTypes : VarNum(v) > 2 * VarDen(v) THEN 1 ELSE 0)
    /\ \A x \in 1..Len(Sentences(Rendered[1], "consistent")) :
         \A w \in NoteTypes : VarLeq(Sentences(Rendered[1], "consistent")[x].names[1], w)
    /\ \A x \in 1..Len(Sentences(Rendered[1], "inconsistent")) :
         \A w \in NoteTypes : VarLeq(w, Sentences(Rendered[1], "inconsistent")[x].names[1])

\* C24: the safety flags are independent: a note type with no issues is
\* flagged for perfect accuracy, and a note type averaging 2 or more issues
\* per record is flagged as requiring attention, both notes being emitted
\* when one note type has none and another averages 2 or more.
C24_SafetyFlags ==
  Summarised =>
    /\ Len(Sentences(Rendered[1], "no-issues"))
         = (IF \E v \in NoteTypes : IssueSum(v) = 0 THEN 1 ELSE 0)
    /\ Len(Sentences(Rendered[1], "needs-attention"))
         = (IF \E v \in NoteTypes : IssueSum(v) >= 2 * Len(RecordsOf(v)) THEN 1 ELSE 0)
    /\ \A x \in 1..Len(Sentences(Rendered[1], "no-issues")) :
         IssueSum(Sentences(Rendered[1], "no-issues")[x].names[1]) = 0
    /\ \A x \in 1..Len(Sentences(Rendered[1], "needs-attention")) :
         \A w \in NoteTypes : RateLeq(w, Sentences(Rendered[1], "needs-attention")[x].names[1])

\* the note types the below-threshold sentences name
NamedBelowThreshold(out) ==
  UNION { {Sentences(out, "below-threshold")[x].names[y] :
             y \in 1..Len(Sentences(out, "below-threshold")[x].names)} :
          x \in 1..Len(Sentences(out, "below-threshold")) }

\* C25: the quality flags are per note type: every note type with mean
\* composite >= 8 is flagged high-quality, also when others are below 8, and
\* every note type with mean composite < 6 is flagged below-threshold, also
\* when others are >= 8.
C25_QualityFlags ==
  Summarised =>
    /\ \A v \in NoteTypes :
         (CompSum(v) >= 16 * Len(RecordsOf(v)) /\ ShownMean(v) >= 80)
           => Len(Sentences(Rendered[1], "all-high-quality")) = 1
    /\ \A v \in NoteTypes :
         (CompSum(v) < 12 * Len(RecordsOf(v)) /\ ShownMean(v) < 60)
           => v \in NamedBelowThreshold(Rendered[1])

\* ------------------------------------------- one orchestrator, three copies
\* What a run over the tasks called so far returns for the outcomes the
\* judge gave: the records of the answered calls in call order, ranked
\* within their groups.
ResultOf(log) ==
  LET ok == SelectSeq(log, LAMBDA c : c.outcome = "ok")
  IN ApplyRankings(
       ArrayOf(
         [p \in 1..Len(ok) |->
            Evaluation([transcriptName |-> ok[p].transcriptName, noteFile |-> ok[p].noteFile],
                       evaluateDentalNotes([transcriptName |-> ok[p].transcriptName,
                                            noteFile |-> ok[p].noteFile]))]))

\* C26: the chunked and the direct strategy differ in the delay only: for
\* the same groups and the same outcome of the judge per task, and for every
\* chunk size >= 1, either issues the judge calls of the task list, one per
\* task in enumeration order, and returns the records of the answered tasks
\* in that order with the ranks they have among the answered tasks of their
\* group; the partial-cap strategy does the same over a prefix of the task
\* list.
C26_OneOrchestrator ==
  /\ Len(calls) <= TaskCount
  /\ \A c \in 1..Len(calls) :
       /\ structure[calls[c].transcriptName].transcript
       /\ TaskNumber(CallTask(c)) = c
  /\ strategy = "direct" => slept \in {0, directDelayMs}
  /\ strategy = "chunked" => slept \in {0, chunkDelayMs}
  /\ pc = "done" =>
       /\ strategy \in {"direct", "chunked"} => Len(calls) = TaskCount
       /\ response.evaluations = ResultOf(calls)

\* a chunked run with chunks of two over six tasks of two groups, the third
\* task failed, and each group with a record ranked first that is not its
\* first record
C26_Witness ==
  /\ pc = "done" /\ strategy = "chunked" /\ chunkArg = 2
  /\ TaskCount = 6
  /\ calls[3].outcome = "failed"
  /\ Len(response.evaluations) = 5
  /\ response.evaluations[1].results.overallRanking > 1
  /\ response.evaluations[3].transcriptName = 2

\* C27: when every judge call is answered or fails in the end, every batch
\* run returns a response in the end, under every strategy and every pattern
\* of failures, and the direct and the chunked strategy make at most T judge
\* calls.
C27_RunsReturn ==
  /\ <>(pc = "done" /\ response.status # 0)
  /\ [](strategy \in {"direct", "chunked"} => Len(calls) <= TaskCount)

\* a chunked run that has returned after six judge calls, all failed
C27_Witness ==
  /\ pc = "done" /\ strategy = "chunked"
  /\ TaskCount = 6 /\ Len(calls) = 6
  /\ \A c \in 1..Len(calls) : calls[c].outcome = "failed"
  /\ response.status = 200

\* ------------------------------------------------------------ the page
\* The UploadResponse of upload number id: batchId and structure (one group
\* of notes), in-memory data, or a sessionId; its transcript is named id.
UploadKinds == {"batch", "data", "session"}

Upload(id, kind, n) == [id |-> id, kind |-> kind, notes |-> [x \in 1..n |-> x]]

PageTask(upload, n) == [transcriptName |-> upload.id, noteFile |-> upload.notes[n]]

\* the evaluation record a request builds for note n of the upload, as the
\* judge client returned it
PageEvaluation(upload, n) ==
  Evaluation(PageTask(upload, n), evaluateDentalNotes(PageTask(upload, n)))

\* the records of the notes in `answered`, in note order
PageEvaluations(upload, answered) ==
  LET ns == SelectSeq(upload.notes, LAMBDA n : n \in answered)
  IN ArrayOf([p \in 1..Len(ns) |-> PageEvaluation(upload, ns[p])])

InitPage ==
  /\ judge \in JudgeTables
  /\ structure = <<>>
  /\ pc = "idle"
  /\ strategy = "none"
  /\ totalFiles = 0
  /\ allTasks = <<>>
  /\ i = 0
  /\ k = 1
  /\ gi = 1
  /\ ni = 1
  /\ filesProcessed = 0
  /\ cur = NoTask
  /\ allEvaluations = <<>>
  /\ calls = <<>>
  /\ slept = 0
  /\ response = [status |-> 0]
  /\ given = <<>>
  /\ chunkArg = 0
  /\ uploadResult = NoUpload
  /\ pageEvaluations = <<>>
  /\ isEvaluating = FALSE
  /\ handlers = <<>>

\* the handler has returned, its locals are gone
Finished(h) == [handlers EXCEPT ![h].running = FALSE, ![h].fetched = 0, ![h].acc = <<>>]

\* UploadInterface (rendered while uploadResult is null) calls
\* onUploadSuccess: setUploadResult(result), setIsEvaluating(true), and the
\* first fetch is sent.
handleUploadSuccess ==
  /\ uploadResult = NoUpload
  /\ Len(handlers) < MaxUploads
  /\ \E kind \in UploadKinds, n \in 1..MaxUploadNotes :
       LET result == Upload(Len(handlers) + 1, kind, n)
       IN /\ uploadResult' = result
          /\ handlers' = Append(handlers,
               [upload |-> result, fetched |-> 0, acc |-> <<>>, running |-> TRUE])
  /\ isEvaluating' = TRUE
  /\ UNCHANGED <<serverVars, pageEvaluations>>

\* result.batchId && result.structure: POST with batchData answers success
\* with the evaluations of the notes the judge answered, ranked within the
\* group; setEvaluations(evaluationData.evaluations || []), then finally.
BatchAnswered(h) ==
  /\ handlers[h].running /\ handlers[h].upload.kind = "batch"
  /\ \E answered \in SUBSET (1..Len(handlers[h].upload.notes)) :
       pageEvaluations' = ApplyRankings(PageEvaluations(handlers[h].upload, answered))
  /\ isEvaluating' = FALSE
  /\ handlers' = Finished(h)
  /\ UNCHANGED <<serverVars, uploadResult>>

\* result.data: one POST per note; an answer with success and evaluation is
\* pushed as it came, any other answer is logged; after the last note
\* setEvaluations(allEvaluations), then finally.
DataAnswered(h) ==
  /\ handlers[h].running /\ handlers[h].upload.kind = "data"
  /\ \E ok \in BOOLEAN :
       LET n == handlers[h].fetched + 1
           acc == IF ok THEN Append(handlers[h].acc, PageEvaluation(handlers[h].upload, n))
                  ELSE handlers[h].acc
       IN IF n < Len(handlers[h].upload.notes)
          THEN /\ handlers' = [handlers EXCEPT ![h].fetched = n, ![h].acc = acc]
               /\ UNCHANGED <<pageEvaluations, isEvaluating>>
          ELSE /\ handlers' = Finished(h)
               /\ pageEvaluations' = acc
               /\ isEvaluating' = FALSE
  /\ UNCHANGED <<serverVars, uploadResult>>

\* result.sessionId: GET with sessionId answers success with the evaluation
\* of every note as evaluateSession pushed it;
\* setEvaluations(evaluationData.evaluations || []), then finally.
SessionAnswered(h) ==
  /\ handlers[h].running /\ handlers[h].upload.kind = "session"
  /\ pageEvaluations' =
       PageEvaluations(handlers[h].upload, 1..Len(handlers[h].upload.notes))
  /\ isEvaluating' = FALSE
  /\ handlers' = Finished(h)
  /\ UNCHANGED <<serverVars, uploadResult>>

\* fetch or json() rejects (catch), or the answer has no success field (the
\* 500 answers of POST and GET): evaluations are left alone, then finally.
FetchFailed(h) ==
  /\ handlers[h].running
  /\ isEvaluating' = FALSE
  /\ handlers' = Finished(h)
  /\ UNCHANGED <<serverVars, uploadResult, pageEvaluations>>

\* the "New Upload" button, rendered whenever uploadResult is set
resetUpload ==
  /\ uploadResult # NoUpload
  /\ uploadResult' = NoUpload
  /\ pageEvaluations' = <<>>
  /\ isEvaluating' = FALSE
  /\ UNCHANGED <<serverVars, handlers>>

NextPage ==
  \/ handleUploadSuccess
  \/ \E h \in 1..Len(handlers) : BatchAnswered(h)
  \/ \E h \in 1..Len(handlers) : DataAnswered(h)
  \/ \E h \in 1..Len(handlers) : SessionAnswered(h)
  \/ \E h \in 1..Len(handlers) : FetchFailed(h)
  \/ resetUpload

PageSpec == InitPage /\ [][NextPage]_vars

\* !uploadResult ? <UploadInterface/> : isEvaluating ? spinner : <ResultsDisplay/>
Displayed == uploadResult # NoUpload /\ ~isEvaluating

\* C28: every evaluation that reaches the results display has been ranked
\* within its transcript group, overallRanking >= 1, whichever path produced
\* it: batch POST, one POST per note of an in-memory upload, or session GET.
C28_DisplayedAreRanked ==
  Displayed =>
    \A p \in 1..Len(pageEvaluations) : pageEvaluations[p].results.overallRanking >= 1

\* C29: the page never shows results of one upload under another: a
\* handleUploadSuccess of an earlier upload that is still running after
\* resetUpload never sets evaluations and never clears isEvaluating for the
\* newer upload, so the spinner stays while the handler of the upload on the
\* page runs, and the evaluations displayed are those of that upload.
C29_NoStaleResults ==
  /\ \A h \in 1..Len(handlers) :
       uploadResult = handlers[h].upload /\ handlers[h].running => isEvaluating
  /\ Displayed =>
       \A p \in 1..Len(pageEvaluations) :
         pageEvaluations[p].transcriptName = uploadResult.id

\* ------------------------------------------------ GET: the disk-based paths
\* setTimeout(resolve, 1000) of evaluateSession and evaluateBatch
diskDelayMs == 1000

\* GET with sessionId (one directory, named by the session) or with batchId
\* (the transcript directories of the batch); a directory whose transcript
\* flag is FALSE holds no file named transcript.
InitGet ==
  /\ judge \in JudgeTables
  /\ strategy \in {"session", "batch"}
  /\ structure \in (IF strategy = "session"
                    THEN {s \in SmallStructures : Len(s) = 1}
                    ELSE SmallStructures)
  /\ pc = "loop"
  /\ totalFiles = 0
  /\ allTasks = <<>>
  /\ i = 0
  /\ k = 1
  /\ gi = 1
  /\ ni = 1
  /\ filesProcessed = 0
  /\ cur = NoTask
  /\ allEvaluations = <<>>
  /\ calls = <<>>
  /\ slept = 0
  /\ response = [status |-> 0]
  /\ given = <<>>
  /\ chunkArg = 0
  /\ uploadResult = NoUpload
  /\ pageEvaluations = <<>>
  /\ isEvaluating = FALSE
  /\ handlers = <<>>

\* findTranscriptFile throws 'No transcript file found'; the catch of
\* evaluateSession answers 500.
SessionUnreadable ==
  /\ pc = "loop" /\ strategy = "session"
  /\ ~structure[1].transcript
  /\ response' = [status |-> 500, error |-> "Failed to evaluate session"]
  /\ pc' = "done"
  /\ UNCHANGED <<pageVars, chunkArg, given, structure, judge, strategy, totalFiles, allTasks,
                 i, k, gi, ni, filesProcessed, cur, allEvaluations, calls, slept>>

\* for (const noteFile of noteFiles) { ... await evaluateDentalNotes(...)
SessionCall ==
  /\ pc = "loop" /\ strategy = "session"
  /\ structure[1].transcript
  /\ ni <= Len(structure[1].notes)
  /\ cur' = TaskAt(<<1, ni>>)
  /\ calls' = Append(calls, Issued(cur'))
  /\ slept' = 0
  /\ pc' = "await"
  /\ UNCHANGED <<pageVars, chunkArg, given, structure, judge, strategy, totalFiles, allTasks,
                 i, k, gi, ni, filesProcessed, allEvaluations, response>>

SessionResolved ==
  /\ pc = "await" /\ strategy = "session"
  /\ allEvaluations' = Append(allEvaluations, Evaluation(cur, evaluateDentalNotes(cur)))
  /\ calls' = Settle(calls, "ok")
  /\ cur' = NoTask
  /\ pc' = "delay"
  /\ UNCHANGED <<pageVars, chunkArg, given, structure, judge, strategy, totalFiles, allTasks,
                 i, k, gi, ni, filesProcessed, slept, response>>

SessionDelay ==
  /\ pc = "delay" /\ strategy = "session"
  /\ slept' = diskDelayMs
  /\ ni' = ni + 1
  /\ pc' = "loop"
  /\ UNCHANGED <<pageVars, chunkArg, given, structure, judge, strategy, totalFiles, allTasks,
                 i, k, gi, filesProcessed, cur, allEvaluations, calls, response>>

\* the loop has no try: the error reaches the catch of evaluateSession, which
\* answers 500 without the evaluations
SessionRejected ==
  /\ pc = "await" /\ strategy = "session"
  /\ JudgeMayFail
  /\ calls' = Settle(calls, "failed")
  /\ cur' = NoTask
  /\ response' = [status |-> 500, error |-> "Failed to evaluate session"]
  /\ pc' = "done"
  /\ UNCHANGED <<pageVars, chunkArg, given, structure, judge, strategy, totalFiles, allTasks,
                 i, k, gi, ni, filesProcessed, allEvaluations, slept>>

\* NextResponse.json({success: true, sessionId, evaluations})
SessionReturn ==
  /\ pc = "loop" /\ strategy = "session"
  /\ structure[1].transcript
  /\ ni > Len(structure[1].notes)
  /\ response' = [status |-> 200, success |-> TRUE, evaluations |-> allEvaluations]
  /\ pc' = "done"
  /\ UNCHANGED <<pageVars, chunkArg, given, structure, judge, strategy, totalFiles, allTasks,
                 i, k, gi, ni, filesProcessed, cur, allEvaluations, calls, slept>>

\* for (const transcriptDir of transcriptDirs) try { findTranscriptFile ...
\* for (const noteFile of noteFiles): a directory without a transcript
\* throws into its own catch and the loop goes on with the next directory.
DiskCall ==
  /\ pc = "loop" /\ strategy = "batch"
  /\ LET pos == SeekNote(structure, gi, ni)
     IN /\ pos[1] <= Len(structure)
        /\ gi' = pos[1]
        /\ ni' = pos[2]
        /\ cur' = TaskAt(pos)
        /\ calls' = Append(calls, Issued(TaskAt(pos)))
  /\ slept' = 0
  /\ pc' = "await"
  /\ UNCHANGED <<pageVars, chunkArg, given, structure, judge, strategy, totalFiles, allTasks, i, k,
                 filesProcessed, allEvaluations, response>>

DiskResolved ==
  /\ pc = "await" /\ strategy = "batch"
  /\ allEvaluations' = Append(allEvaluations, Evaluation(cur, evaluateDentalNotes(cur)))
  /\ calls' = Settle(calls, "ok")
  /\ cur' = NoTask
  /\ pc' = "delay"
  /\ UNCHANGED <<pageVars, chunkArg, given, structure, judge, strategy, totalFiles, allTasks,
                 i, k, gi, ni, filesProcessed, slept, response>>

DiskDelay ==
  /\ pc = "delay" /\ strategy = "batch"
  /\ slept' = diskDelayMs
  /\ ni' = ni + 1
  /\ pc' = "loop"
  /\ UNCHANGED <<pageVars, chunkArg, given, structure, judge, strategy, totalFiles, allTasks,
                 i, k, gi, filesProcessed, cur, allEvaluations, calls, response>>

\* the try encloses the whole directory: catch (error) { "Continue with
\* other directories" } leaves the inner loop
DiskRejected ==
  /\ pc = "await" /\ strategy = "batch"
  /\ JudgeMayFail
  /\ calls' = Settle(calls, "failed")
  /\ cur' = NoTask
  /\ gi' = gi + 1
  /\ ni' = 1
  /\ pc' = "loop"
  /\ UNCHANGED <<pageVars, chunkArg, given, structure, judge, strategy, totalFiles, allTasks,
                 i, k, filesProcessed, allEvaluations, slept, response>>

\* "Rank evaluations within each transcript group" and
\* NextResponse.json({success: true, batchId, evaluations: allEvaluations, summary})
DiskReturn ==
  /\ pc = "loop" /\ strategy = "batch"
  /\ SeekNote(structure, gi, ni)[1] > Len(structure)
  /\ allEvaluations' = ApplyRankings(allEvaluations)
  /\ response' = [status |-> 200, success |-> TRUE, evaluations |-> allEvaluations']
  /\ pc' = "done"
  /\ UNCHANGED <<pageVars, chunkArg, given, structure, judge, strategy, totalFiles, allTasks,
                 i, k, gi, ni, filesProcessed, cur, calls, slept>>

NextGet ==
  \/ SessionUnreadable
  \/ SessionCall \/ SessionResolved \/ SessionDelay \/ SessionRejected
  \/ SessionReturn
  \/ DiskCall \/ DiskResolved \/ DiskDelay \/ DiskRejected
  \/ DiskReturn

GetSpec == InitGet /\ [][NextGet]_vars

\* C30: in the disk-based batch path a judge failure on one note of a
\* transcript directory is isolated to that note: the other notes of the
\* directory and all other directories are still sent to the judge and the
\* request succeeds; in the session path a judge failure does not discard
\* the evaluations already produced: the answer of a run with a failed call
\* has status 200, every note was sent to the judge, and the answer holds the
\* evaluation of every answered call.
C30_FailureIsolated ==
  (pc = "done" /\ \E c \in 1..Len(calls) : calls[c].outcome = "failed") =>
    /\ response.status = 200
    /\ Len(calls) = TaskCount
    /\ \A c \in 1..Len(calls) :
         calls[c].outcome = "ok" =>
           \E p \in 1..Len(response.evaluations) :
             RecordTask(response.evaluations[p]) = CallTask(c)

====
